---- MODULE Spec2Model ----
(***************************************************************************)
(* A model of ruthless' layered-image translation engine.                  *)
(*                                                                         *)
(*  Part I   the btrfs send-stream decoder of src/src/btrfs_send.rs        *)
(*           (specification Spec): the byte buffer, the cursor of the      *)
(*           frame loop of BtrfsSend::try_from, the commands decoded so    *)
(*           far and the value returned.                                   *)
(*  Part II  the application of an OCI layer tar onto a snapshot,          *)
(*           src/src/images.rs (specification LayerSpec).                  *)
(*  Part III the import of an OCI tarball into the image repository,       *)
(*           src/src/oci_image.rs and src/src/images.rs (specification     *)
(*           ImportSpec); the layers are applied by the steps of Part II.  *)
(*  Part IV  the walk of an image's lineage and its export,                *)
(*           src/src/oci_image.rs (specification ExportSpec).              *)
(*  Part V   the directory a process is started in,                        *)
(*           get_image_location_for_process of src/src/images.rs           *)
(*           (specification LocationSpec).                                 *)
(*  Part VI  the reads of the send pipe, get_btrfs_send of                 *)
(*           src/src/oci_image.rs (specification SendSpec).                *)
(*                                                                         *)
(* Bytes are integers 0..255.  TLC's integers are 32 bits wide, so a u32   *)
(* is kept as two 16-bit limbs <<hi, lo>> and a u64 as four, most          *)
(* significant first; arithmetic on them wraps at the type's width.        *)
(***************************************************************************)
EXTENDS Integers, Sequences, FiniteSets, TLC

VARIABLES
    tc,        \* the input under decode, as it was put together (ghost)
    source,    \* try_from's argument: Vec<u8>
    pos,       \* index (1-based) of the next byte of the `bytes` iterator
    commands,  \* try_from's local `commands`
    ret,       \* what try_from returned (st = "pending" until it returns)
    pc,        \* "start" | "loop" | "done"
    tlvlog,    \* ghost: the TLVs parse_tlvs read in the last frame
    snapshot,  \* Part II: the destination tree, path -> content
    queues,    \* Part II: (opaque_whiteouts, whiteouts, modifications)
    lpc,       \* Part II: position inside from_layer_to_snapshot
    lret,      \* Part II: what from_layer_to_snapshot returned
    layer,     \* Part II: the entries of the layer tar, in tar order
    trace,     \* Part II ghost: the filesystem steps taken, in order
    before,    \* Part II ghost: the destination tree before the layer
    image,     \* Part III: the OCIImage: its name and unpacked tar_content
    repo,      \* Part III: the repository, subvolume name -> tree
    fault,     \* Part III: the error the create/snapshot ioctls fail with, or "none"
    layer_stack,           \* Part III: build_layer_stack's results, then the pending layers
    layer_json,            \* Part III: the id of the layer json last read
    last_layer_processed,  \* Part III: import_from_layer_stack's local
    new_layer_name,        \* Part III: import_from_layer_stack's local
    ipc,       \* Part III: position inside OCIImage::import
    iret,      \* Part III: what import returned
    calls,     \* Part III ghost: the create and snapshot calls of this import
    runs,      \* Part III ghost: the repository at the start of each import so far,
               \* with the result and the calls of the import before it
    store,         \* Part IV: the repository as the ioctls see it, name -> subvolume
    export_args,   \* Part IV: export's arguments: the image name, the tarball path
    current_name,  \* Part IV: get_btrfs_subvolume_stack's local
    stack,         \* Part IV: get_btrfs_subvolume_stack's local, then export's
    lineage,       \* Part IV: what get_btrfs_subvolume_stack returned
    sends,         \* Part IV: export's Vec<(uuid, BtrfsSend)>, the part not yet processed
    parent_id,     \* Part IV: export's local `parent`
    work_bench,    \* Part IV: the tree under the TempDir of export
    epc,           \* Part IV: position inside export
    eret,          \* Part IV: what export returned
    materialized,  \* Part IV ghost: the calls of process_subvolume, in order
    cwd,           \* Part V: the paths outside the repository, path -> "dir" | "file"
    located,       \* Part V ghost: the calls of get_image_location_for_process
    send_stream,   \* Part VI: the stream the kernel writes for the subvolume
    pipe,          \* Part VI: the bytes in the pipe
    read_cache,    \* Part VI: the buffer of get_btrfs_send
    content,       \* Part VI: the Vec that is handed to try_from
    returned,      \* Part VI ghost: the bytes the reads have returned, in order
    spc            \* Part VI: position inside get_btrfs_send

dvars == <<tc, source, pos, commands, ret, pc, tlvlog>>
lvars == <<snapshot, queues, lpc, lret, layer, trace, before>>
ivars == <<image, repo, fault, layer_stack, layer_json, last_layer_processed,
           new_layer_name, ipc, iret, calls, runs>>
evars == <<store, export_args, current_name, stack, lineage, sends, parent_id,
           work_bench, epc, eret, materialized>>
vars == <<tc, source, pos, commands, ret, pc, tlvlog,
          snapshot, queues, lpc, lret, layer, trace, before,
          image, repo, fault, layer_stack, layer_json, last_layer_processed,
          new_layer_name, ipc, iret, calls, runs,
          store, export_args, current_name, stack, lineage, sends, parent_id,
          work_bench, epc, eret, materialized,
          cwd, located,
          send_stream, pipe, read_cache, content, returned, spc>>
pvars == <<send_stream, pipe, read_cache, content, returned, spc>>
xvars == <<cwd, located, pvars>>

---------------------------------------------------------------------------
(* Part I.  Errors and results                                             *)

Err(name, args) == [name |-> name, args |-> args]
NoErr == Err("", <<>>)

\* Result<T, BtrfsSendError> of the byte-level parsers: the value and the
\* position of the iterator after it.
POk(val, p) == [ok |-> TRUE, err |-> NoErr, val |-> val, pos |-> p]
PErr(e) == [ok |-> FALSE, err |-> e, val |-> <<>>, pos |-> 0]

U16Mod == 256 * 256

\* const MAGIC_NUMBER
MAGIC_NUMBER == <<98, 116, 114, 102, 115, 45, 115, 116, 114, 101, 97, 109, 0>>
BTRFS_UUID_SIZE == 16
HeaderLen == Len(MAGIC_NUMBER) + 4

\* Two bytes, big-endian: what transmute + to_be() yields on either host.
BE16(s, p) == s[p] * 256 + s[p + 1]

parse_u16(s, p) ==
    IF p + 1 > Len(s) THEN PErr(Err("NotEnoughBytesToParseU16", <<>>))
    ELSE POk(<<BE16(s, p)>>, p + 2)

parse_u32(s, p) ==
    IF p + 3 > Len(s) THEN PErr(Err("NotEnoughBytesToParseU32", <<>>))
    ELSE POk(<<BE16(s, p), BE16(s, p + 2)>>, p + 4)

\* parse_u64 reports a short read as NotEnoughBytesToParseU32, as the code does.
parse_u64(s, p) ==
    IF p + 7 > Len(s) THEN PErr(Err("NotEnoughBytesToParseU32", <<>>))
    ELSE POk(<<BE16(s, p), BE16(s, p + 2), BE16(s, p + 4), BE16(s, p + 6)>>, p + 8)

\* `length` is a u32 in limbs; a length of 65536 or more exceeds every buffer
\* of the model, so the loop runs out of bytes.
parse_data(s, p, length) ==
    IF length[1] # 0 \/ p + length[2] - 1 > Len(s)
    THEN PErr(Err("UnexpectedLength", length))
    ELSE POk(SubSeq(s, p, p + length[2] - 1), p + length[2])

parse_uuid(s, p) ==
    IF p + BTRFS_UUID_SIZE - 1 > Len(s)
    THEN PErr(Err("UnexpectedLength", <<0, BTRFS_UUID_SIZE>>))
    ELSE POk(SubSeq(s, p, p + BTRFS_UUID_SIZE - 1), p + BTRFS_UUID_SIZE)

\* Timespec { secs: u64, nsecs: u32 }: six limbs.
parse_timespec(s, p) ==
    LET secs == parse_u64(s, p) IN
    IF ~secs.ok THEN secs
    ELSE LET nsecs == parse_u32(s, secs.pos) IN
         IF ~nsecs.ok THEN nsecs
         ELSE POk(secs.val \o nsecs.val, nsecs.pos)

parse_string(s, p, length) == parse_data(s, p, length)

parse_path(s, p, length) == parse_string(s, p, length)

---------------------------------------------------------------------------
(* TLVs.  A decoded TLV is its tag (the BtrfsSendTlv variant) and its      *)
(* value: the bytes of a string, blob, path or UUID, or the limbs of a     *)
(* u64 or Timespec; Inode carries none.                                    *)

Tlv(tag, val) == [tag |-> tag, val |-> val]

\* Option<BtrfsSendTlv>, the declared length and the iterator's position.
TNone == [st |-> "none", err |-> NoErr, tlv |-> Tlv(0, <<>>), len |-> 0, pos |-> 0]
TErr(e) == [st |-> "err", err |-> e, tlv |-> Tlv(0, <<>>), len |-> 0, pos |-> 0]
TSome(tag, r, len) == [st |-> "some", err |-> NoErr, tlv |-> Tlv(tag, r.val), len |-> len, pos |-> r.pos]

\* The match on tlv_type of parse_tlv: only the variable-size kinds use
\* `length`; Inode (3) reads nothing.
parse_tlv_value(tlv_type, s, p, length) ==
    CASE tlv_type = 1 -> parse_uuid(s, p)
      [] tlv_type = 2 -> parse_u64(s, p)
      [] tlv_type = 3 -> POk(<<>>, p)
      [] tlv_type = 4 -> parse_u64(s, p)
      [] tlv_type = 5 -> parse_u64(s, p)
      [] tlv_type = 6 -> parse_u64(s, p)
      [] tlv_type = 7 -> parse_u64(s, p)
      [] tlv_type = 8 -> parse_u64(s, p)
      [] tlv_type = 9 -> parse_timespec(s, p)
      [] tlv_type = 10 -> parse_timespec(s, p)
      [] tlv_type = 11 -> parse_timespec(s, p)
      [] tlv_type = 12 -> parse_timespec(s, p)
      [] tlv_type = 13 -> parse_string(s, p, length)
      [] tlv_type = 14 -> parse_data(s, p, length)
      [] tlv_type = 15 -> parse_path(s, p, length)
      [] tlv_type = 16 -> parse_path(s, p, length)
      [] tlv_type = 17 -> parse_path(s, p, length)
      [] tlv_type = 18 -> parse_u64(s, p)
      [] tlv_type = 19 -> parse_data(s, p, length)
      [] tlv_type = 20 -> parse_uuid(s, p)
      [] tlv_type = 21 -> parse_u64(s, p)
      [] tlv_type = 22 -> parse_path(s, p, length)
      [] tlv_type = 23 -> parse_u64(s, p)
      [] tlv_type = 24 -> parse_u64(s, p)
      [] OTHER -> PErr(Err("InvalidTlvType", <<tlv_type>>))

\* The steps of parse_tlv, each handed the result of the read before it.
tlv_result(tlv_type, len, r) ==
    IF ~r.ok THEN TErr(r.err) ELSE TSome(tlv_type, r, len)

parse_tlv_after_length(s, tlv_type, len16) ==
    IF ~len16.ok THEN TErr(len16.err)
    ELSE tlv_result(tlv_type, len16.val[1],
                    parse_tlv_value(tlv_type, s, len16.pos, <<0, len16.val[1]>>))

parse_tlv_after_type(s, tlv_type) ==
    IF ~tlv_type.ok THEN TErr(tlv_type.err)
    ELSE parse_tlv_after_length(s, tlv_type.val[1], parse_u16(s, tlv_type.pos))

parse_tlv(s, p) ==
    IF p > Len(s) THEN TNone ELSE parse_tlv_after_type(s, parse_u16(s, p))

\* Result<Vec<BtrfsSendTlv>, _>; `log` records, for every TLV read, its tag,
\* where it started, the length it declared and where the next read starts.
RECURSIVE parse_tlvs_from(_, _, _, _)
parse_tlvs_step(s, p, tlvs, log, t) ==
    IF t.st = "none" THEN [ok |-> TRUE, err |-> NoErr, tlvs |-> tlvs, log |-> log]
    ELSE IF t.st = "err" THEN [ok |-> FALSE, err |-> t.err, tlvs |-> <<>>, log |-> log]
    ELSE parse_tlvs_from(s, t.pos, Append(tlvs, t.tlv),
                         Append(log, [tag |-> t.tlv.tag, start |-> p, len |-> t.len, next |-> t.pos]))

parse_tlvs_from(s, p, tlvs, log) == parse_tlvs_step(s, p, tlvs, log, parse_tlv(s, p))

parse_tlvs(s) == parse_tlvs_from(s, 1, <<>>, <<>>)

---------------------------------------------------------------------------
(* Commands.  A BtrfsSendCommand is its variant and its fields, each the   *)
(* value of the TLV it was taken from.                                     *)

Cmd(kind, args) == [kind |-> kind, args |-> args]
COk(c) == [ok |-> TRUE, err |-> NoErr, cmd |-> c]
CErr(e) == [ok |-> FALSE, err |-> e, cmd |-> Cmd("", <<>>)]

\* The shape shared by the parse_*_command functions: the length test, then
\* one `if let` per field, in order, each reading tlvs[fields[k][1]] (1-based)
\* and expecting tag fields[k][2].
parse_fields(tlvs, n, fields, kind) ==
    IF Len(tlvs) # n THEN CErr(Err("WrongNumberOfTlvs", <<Len(tlvs), n>>))
    ELSE IF \E k \in 1..Len(fields) : tlvs[fields[k][1]].tag # fields[k][2]
         THEN CErr(Err("UnexpectedTlv", <<>>))
         ELSE COk(Cmd(kind, [k \in 1..Len(fields) |-> tlvs[fields[k][1]].val]))

\* size is read from tlvs[1] (0-based), the TLV the offset was read from.
parse_extent_command(tlvs) ==
    parse_fields(tlvs, 3, << <<1, 15>>, <<2, 18>>, <<2, 4>> >>, "UpdateExtent")

parse_utimes_command(tlvs) ==
    parse_fields(tlvs, 4, << <<1, 15>>, <<2, 11>>, <<3, 10>>, <<4, 9>> >>, "Utimes")

parse_chown_command(tlvs) ==
    parse_fields(tlvs, 3, << <<1, 15>>, <<2, 6>>, <<3, 7>> >>, "Chown")

parse_chmod_command(tlvs) ==
    parse_fields(tlvs, 2, << <<1, 15>>, <<2, 5>> >>, "Chmod")

parse_truncate_command(tlvs) ==
    parse_fields(tlvs, 2, << <<1, 15>>, <<2, 4>> >>, "Truncate")

\* clone_uuid is matched against Uuid (1), not CloneUuid (20).
parse_clone_command(tlvs) ==
    parse_fields(tlvs, 7, << <<1, 15>>, <<2, 18>>, <<3, 24>>, <<4, 1>>,
                             <<5, 21>>, <<6, 22>>, <<7, 23>> >>, "Clone")

\* A variant that does not look at the kind of the data field.
parse_write_command_unchecked_data(tlvs) ==
    IF Len(tlvs) # 3 THEN CErr(Err("WrongNumberOfTlvs", <<Len(tlvs), 3>>))
    ELSE IF tlvs[1].tag # 15 \/ tlvs[2].tag # 18 THEN CErr(Err("UnexpectedTlv", <<>>))
    ELSE COk(Cmd("Write", <<tlvs[1].val, tlvs[2].val, tlvs[3].val>>))

parse_write_command(tlvs) ==
    parse_fields(tlvs, 3, << <<1, 15>>, <<2, 18>>, <<3, 19>> >>, "Write")

parse_rm_xattr_command(tlvs) ==
    parse_fields(tlvs, 2, << <<1, 15>>, <<2, 13>> >>, "RemoveXattr")

parse_set_xattr_command(tlvs) ==
    parse_fields(tlvs, 3, << <<1, 15>>, <<2, 13>>, <<3, 14>> >>, "SetXattr")

parse_rmdir_command(tlvs) ==
    parse_fields(tlvs, 1, << <<1, 15>> >>, "Rmdir")

parse_unlink_command(tlvs) ==
    parse_fields(tlvs, 1, << <<1, 15>> >>, "Unlink")

\* path_link is read from tlvs[0], the TLV the path was read from.
parse_link_command(tlvs) ==
    parse_fields(tlvs, 2, << <<1, 15>>, <<1, 17>> >>, "Link")

\* path_to is read from tlvs[0], the TLV the path was read from.
parse_rename_command(tlvs) ==
    parse_fields(tlvs, 2, << <<1, 15>>, <<1, 16>> >>, "Rename")

\* path_link is read from tlvs[0], the TLV the path was read from.
parse_symlink_command(tlvs) ==
    parse_fields(tlvs, 2, << <<1, 15>>, <<1, 17>> >>, "Symlink")

parse_mksock_command(tlvs) ==
    parse_fields(tlvs, 1, << <<1, 15>> >>, "Mksock")

parse_mkfifo_command(tlvs) ==
    parse_fields(tlvs, 1, << <<1, 15>> >>, "Mkfifo")

parse_mknod_command(tlvs) ==
    parse_fields(tlvs, 3, << <<1, 15>>, <<2, 5>>, <<3, 8>> >>, "Mknod")

parse_mkdir_command(tlvs) ==
    parse_fields(tlvs, 1, << <<1, 15>> >>, "Mkdir")

parse_mkfile_command(tlvs) ==
    parse_fields(tlvs, 1, << <<1, 15>> >>, "Mkfile")

parse_snapshot_command(tlvs) ==
    parse_fields(tlvs, 5, << <<1, 15>>, <<2, 1>>, <<3, 21>>, <<4, 1>>, <<5, 21>> >>, "Snapshot")

parse_subvol_command(tlvs) ==
    parse_fields(tlvs, 3, << <<1, 15>>, <<2, 1>>, <<3, 21>> >>, "Subvol")

\* The match on type_number of parse_btrfs_type; END (21) looks at no TLV.
parse_btrfs_dispatch(type_number, tlvs) ==
    CASE type_number = 1 -> parse_subvol_command(tlvs)
      [] type_number = 2 -> parse_snapshot_command(tlvs)
      [] type_number = 3 -> parse_mkfile_command(tlvs)
      [] type_number = 4 -> parse_mkdir_command(tlvs)
      [] type_number = 5 -> parse_mknod_command(tlvs)
      [] type_number = 6 -> parse_mkfifo_command(tlvs)
      [] type_number = 7 -> parse_mksock_command(tlvs)
      [] type_number = 8 -> parse_symlink_command(tlvs)
      [] type_number = 9 -> parse_rename_command(tlvs)
      [] type_number = 10 -> parse_link_command(tlvs)
      [] type_number = 11 -> parse_unlink_command(tlvs)
      [] type_number = 12 -> parse_rmdir_command(tlvs)
      [] type_number = 13 -> parse_set_xattr_command(tlvs)
      [] type_number = 14 -> parse_rm_xattr_command(tlvs)
      [] type_number = 15 -> parse_write_command(tlvs)
      [] type_number = 16 -> parse_clone_command(tlvs)
      [] type_number = 17 -> parse_truncate_command(tlvs)
      [] type_number = 18 -> parse_chmod_command(tlvs)
      [] type_number = 19 -> parse_chown_command(tlvs)
      [] type_number = 20 -> parse_utimes_command(tlvs)
      [] type_number = 21 -> COk(Cmd("End", <<>>))
      [] type_number = 22 -> parse_extent_command(tlvs)
      [] OTHER -> CErr(Err("InvalidCommandType", <<type_number>>))

\* Result<BtrfsSendCommand, _> and the TLV log of the payload.
TypeResult(c, log) == [ok |-> c.ok, err |-> c.err, cmd |-> c.cmd, log |-> log]

parse_btrfs_type_tlvs(type_number, t) ==
    IF ~t.ok THEN TypeResult(CErr(t.err), t.log)
    ELSE TypeResult(parse_btrfs_dispatch(type_number, t.tlvs), t.log)

parse_btrfs_type(type_number, data) ==
    parse_btrfs_type_tlvs(type_number, parse_tlvs(data))

\* Wrapping addition of two u32 in limbs.
wrapping_add(a, b) ==
    <<(a[1] + b[1] + (a[2] + b[2]) \div U16Mod) % U16Mod, (a[2] + b[2]) % U16Mod>>

\* data.iter().cloned().map(u32::from).sum(): the bytes, each widened to a
\* u32, added up in a u32.  Wrapping addition is associative, so the fold is
\* evaluated by halves to keep the evaluation shallow.
RECURSIVE SumU32(_, _, _)
SumU32(data, lo, hi) ==
    IF lo > hi THEN <<0, 0>>
    ELSE IF lo = hi THEN <<0, data[lo]>>
    ELSE wrapping_add(SumU32(data, lo, (lo + hi) \div 2),
                      SumU32(data, (lo + hi) \div 2 + 1, hi))

data_checksum(data) == SumU32(data, 1, Len(data))

\* Option<BtrfsSendCommand>: st is "none" when no byte is left, "some" with
\* the command and the position after the frame, "err" with the error.
FNone == [st |-> "none", err |-> NoErr, cmd |-> Cmd("", <<>>), pos |-> 0, log |-> <<>>]
FErr(e) == [st |-> "err", err |-> e, cmd |-> Cmd("", <<>>), pos |-> 0, log |-> <<>>]

FSome(c, p) ==
    IF c.ok THEN [st |-> "some", err |-> NoErr, cmd |-> c.cmd, pos |-> p, log |-> c.log]
    ELSE [st |-> "err", err |-> c.err, cmd |-> Cmd("", <<>>), pos |-> 0, log |-> c.log]

\* A variant that validates the command type and the TLVs first and
\* compares the checksum afterwards.
FSomeThenChecksum(c, p, checksum, sum) ==
    IF ~c.ok THEN [st |-> "err", err |-> c.err, cmd |-> Cmd("", <<>>), pos |-> 0, log |-> c.log]
    ELSE IF sum # checksum THEN FErr(Err("InvalidChecksume", checksum \o sum))
    ELSE [st |-> "some", err |-> NoErr, cmd |-> c.cmd, pos |-> p, log |-> c.log]
check_checksum_after_type(type_number, checksum, data, sum) ==
    FSomeThenChecksum(parse_btrfs_type(type_number, data.val), data.pos, checksum, sum)

\* A variant that compares the low 16 bits of the two sums only.
check_checksum_low_half(type_number, checksum, data, sum) ==
    IF sum[2] = checksum[2]
    THEN FSome(parse_btrfs_type(type_number, data.val), data.pos)
    ELSE FErr(Err("InvalidChecksume", checksum \o sum))

\* The steps of parse_btrfs_command, each handed the results of the reads
\* before it.
check_checksum(type_number, checksum, data, sum) ==
    IF sum = checksum
    THEN FSome(parse_btrfs_type(type_number, data.val), data.pos)
    ELSE FErr(Err("InvalidChecksume", checksum \o sum))

parse_command_after_data(type_number, checksum, data) ==
    IF ~data.ok THEN FErr(data.err)
    ELSE check_checksum(type_number, checksum, data, data_checksum(data.val))

parse_command_after_checksum(s, length, type_number, checksum) ==
    IF ~checksum.ok THEN FErr(checksum.err)
    ELSE parse_command_after_data(type_number, checksum.val,
                                  parse_data(s, checksum.pos, length))

parse_command_after_type(s, length, type_number) ==
    IF ~type_number.ok THEN FErr(type_number.err)
    ELSE parse_command_after_checksum(s, length, type_number.val[1],
                                      parse_u32(s, type_number.pos))

parse_command_after_length(s, length) ==
    IF ~length.ok THEN FErr(length.err)
    ELSE parse_command_after_type(s, length.val, parse_u16(s, length.pos))

parse_btrfs_command(s, p) ==
    IF p > Len(s) THEN FNone ELSE parse_command_after_length(s, parse_u32(s, p))

\* A variant that compares the 12 letters and not the closing NUL.
parse_btrfs_header_no_nul(s) ==
    IF SubSeq(s, 1, Len(MAGIC_NUMBER) - 1) # SubSeq(MAGIC_NUMBER, 1, Len(MAGIC_NUMBER) - 1)
    THEN Err("InvalidMagicNumber", <<>>)
    ELSE NoErr

\* parse_btrfs_header is handed the first 17 bytes.
parse_btrfs_header(s) ==
    IF SubSeq(s, 1, Len(MAGIC_NUMBER)) # MAGIC_NUMBER
    THEN Err("InvalidMagicNumber", <<>>)
    ELSE NoErr

---------------------------------------------------------------------------
(* The inputs handed to decode.  A stream is put together from a           *)
(* description: the 13 magic bytes, the 4 version bytes, the frames (each  *)
(* a command type, its TLVs and an offset added to the true checksum), an  *)
(* optional single-byte change and an optional truncation.  The bytes are  *)
(* laid out as the wire format prescribes, independently of the parsers    *)
(* above.                                                                  *)

MaxFrames == 2       \* frames in a stream of arbitrary commands
MaxExtraTlvs == 1    \* TLVs beyond a command's arity

RECURSIVE Concat(_)
Concat(ss) == IF ss = <<>> THEN <<>> ELSE Head(ss) \o Concat(Tail(ss))

RECURSIVE SumRange(_, _, _)
SumRange(bs, lo, hi) ==
    IF lo > hi THEN 0
    ELSE IF lo = hi THEN bs[lo]
    ELSE SumRange(bs, lo, (lo + hi) \div 2) + SumRange(bs, (lo + hi) \div 2 + 1, hi)
SumBytes(bs) == SumRange(bs, 1, Len(bs))

U16Bytes(v) == <<v \div 256, v % 256>>
LimbBytes(limbs) == Concat([i \in 1..Len(limbs) |-> U16Bytes(limbs[i])])
U32Add(a, b) ==
    <<(a[1] + b[1] + (a[2] + b[2]) \div U16Mod) % U16Mod, (a[2] + b[2]) % U16Mod>>

\* The kind of value each TLV tag carries.
TlvKind(tag) ==
    CASE tag \in {1, 20} -> "uuid"
      [] tag \in {2, 4, 5, 6, 7, 8, 18, 21, 23, 24} -> "u64"
      [] tag = 3 -> "inode"
      [] tag \in {9, 10, 11, 12} -> "timespec"
      [] OTHER -> "bytes"

\* The size in bytes of a fixed-size kind's value (bytes: the sample's).
NaturalSize(tag) ==
    CASE TlvKind(tag) = "uuid" -> BTRFS_UUID_SIZE
      [] TlvKind(tag) = "u64" -> 8
      [] TlvKind(tag) = "inode" -> 0
      [] TlvKind(tag) = "timespec" -> 12
      [] OTHER -> 2

\* A value for the TLV of tag `tag` at position i of a command, distinct
\* per tag and position, with bytes that tell the byte orders apart.
SampleVal(tag, i) ==
    CASE TlvKind(tag) = "uuid" -> [k \in 1..BTRFS_UUID_SIZE |-> 16 * i + k]
      [] TlvKind(tag) = "u64" -> <<0, 0, 258, 768 + tag>>
      [] TlvKind(tag) = "inode" -> <<>>
      [] TlvKind(tag) = "timespec" -> <<0, 0, 1, 512 + tag, 2, 768 + i>>
      [] OTHER -> <<96 + i, tag>>

ValueBytes(tag, val) ==
    IF TlvKind(tag) \in {"uuid", "bytes", "inode"} THEN val ELSE LimbBytes(val)

\* A TLV on the wire: {u16 type BE, u16 length BE, value}.
TlvDesc(tag, len, bytes) == [tag |-> tag, len |-> len, bytes |-> bytes]
SampleTlv(tag, i) ==
    TlvDesc(tag, Len(ValueBytes(tag, SampleVal(tag, i))), ValueBytes(tag, SampleVal(tag, i)))
TlvBytes(d) == U16Bytes(d.tag) \o U16Bytes(d.len) \o d.bytes

\* A frame on the wire: {u32 length BE, u16 type BE, u32 checksum BE, payload}.
FrameDesc(type, tlvs, ck) == [type |-> type, tlvs |-> tlvs, ck |-> ck]
PayloadBytes(f) == Concat([i \in 1..Len(f.tlvs) |-> TlvBytes(f.tlvs[i])])
TrueChecksum(payload) == <<SumBytes(payload) \div U16Mod, SumBytes(payload) % U16Mod>>
FrameBytes(f) ==
    LET payload == PayloadBytes(f) IN
    LimbBytes(<<0, Len(payload)>>) \o U16Bytes(f.type)
        \o LimbBytes(U32Add(TrueChecksum(payload), f.ck)) \o payload

\* The TLV variants the fields of each command type are matched against,
\* in field order.
TlvList(type) ==
    CASE type = 1 -> <<15, 1, 21>>
      [] type = 2 -> <<15, 1, 21, 1, 21>>
      [] type \in {3, 4, 6, 7, 11, 12} -> <<15>>
      [] type = 5 -> <<15, 5, 8>>
      [] type \in {8, 10} -> <<15, 17>>
      [] type = 9 -> <<15, 16>>
      [] type = 13 -> <<15, 13, 14>>
      [] type = 14 -> <<15, 13>>
      [] type = 15 -> <<15, 18, 19>>
      [] type = 16 -> <<15, 18, 24, 1, 21, 22, 23>>
      [] type = 17 -> <<15, 4>>
      [] type = 18 -> <<15, 5>>
      [] type = 19 -> <<15, 6, 7>>
      [] type = 20 -> <<15, 11, 10, 9>>
      [] type = 22 -> <<15, 18, 4>>
      [] OTHER -> <<>>

Arity(type) == Len(TlvList(type))

KindName(type) ==
    <<"Subvol", "Snapshot", "Mkfile", "Mkdir", "Mknod", "Mkfifo", "Mksock",
      "Symlink", "Rename", "Link", "Unlink", "Rmdir", "SetXattr", "RemoveXattr",
      "Write", "Clone", "Truncate", "Chmod", "Chown", "Utimes", "End",
      "UpdateExtent">>[type]

CommandTypes == 1..22
TlvTags == 1..24

\* One command of each kind and the frame that encodes it.
SampleCommand(type) ==
    Cmd(KindName(type), [i \in 1..Arity(type) |-> SampleVal(TlvList(type)[i], i)])
SampleFrame(type) ==
    FrameDesc(type, [i \in 1..Arity(type) |-> SampleTlv(TlvList(type)[i], i)], <<0, 0>>)

Version1 == <<0, 0, 0, 1>>

TestCase(fam, magic, version, frames, mut, cut) ==
    [fam |-> fam, magic |-> magic, version |-> version, frames |-> frames,
     mut |-> mut, cut |-> cut]

RawBytes(t) ==
    t.magic \o t.version \o Concat([i \in 1..Len(t.frames) |-> FrameBytes(t.frames[i])])

\* The stream: the raw bytes, with byte mut[1] set to mut[2] (when mut[1] > 0)
\* and cut to `cut` bytes (when cut >= 0).
StreamBytes(t) ==
    LET raw == RawBytes(t)
        changed == IF t.mut[1] = 0 THEN raw
                   ELSE [i \in 1..Len(raw) |-> IF i = t.mut[1] THEN t.mut[2] ELSE raw[i]]
    IN IF t.cut < 0 THEN changed ELSE SubSeq(changed, 1, t.cut)

ValidCase(fam, types) ==
    TestCase(fam, MAGIC_NUMBER, Version1, [i \in 1..Len(types) |-> SampleFrame(types[i])],
             <<0, 0>>, -1)

\* Other values for a byte b.
OtherBytes(b) == {(b + 1) % 256, (b + 16) % 256, (b + 255) % 256}

\* Streams of the kinds decode accepts, to change or truncate.
BaseStreams == {<<3>>, <<18, 21>>, <<15>>}

RoundTripCases ==
    {ValidCase("roundtrip", types) : types \in UNION {[1..n -> CommandTypes] : n \in 0..MaxFrames}}

MutationCases ==
    UNION {
      LET t == ValidCase("mutation", types) IN
      UNION {{[t EXCEPT !.mut = <<p, v>>] : v \in OtherBytes(RawBytes(t)[p])}
             : p \in (HeaderLen + 1)..Len(RawBytes(t))}
      : types \in BaseStreams}

TruncationCases ==
    UNION {
      LET t == ValidCase("truncation", types) IN
      {[t EXCEPT !.cut = c] : c \in 0..(Len(RawBytes(t)) - 1)}
      : types \in BaseStreams}

\* One checksum-valid frame of each type holding n well-formed TLVs, n not
\* the type's arity: the first n of its list, or its list and more paths.
ArityTlvs(type, n) ==
    [i \in 1..n |-> IF i <= Arity(type) THEN SampleTlv(TlvList(type)[i], i) ELSE SampleTlv(15, i)]
ArityCases ==
    {TestCase("arity", MAGIC_NUMBER, Version1,
              <<FrameDesc(type[1], ArityTlvs(type[1], type[2]), <<0, 0>>)>>, <<0, 0>>, -1)
     : type \in {x \in CommandTypes \X (0..(7 + MaxExtraTlvs)) :
                    x[2] # Arity(x[1]) /\ x[2] <= Arity(x[1]) + MaxExtraTlvs}}

\* One checksum-valid frame of each type with its arity of TLVs, the one at
\* position i of another tag.
WrongKindCases ==
    {TestCase("wrongkind", MAGIC_NUMBER, Version1,
              <<FrameDesc(x[1], [i \in 1..Arity(x[1]) |->
                                   IF i = x[2] THEN SampleTlv(x[3], i)
                                   ELSE SampleTlv(TlvList(x[1])[i], i)], <<0, 0>>)>>,
              <<0, 0>>, -1)
     : x \in {y \in CommandTypes \X (1..7) \X TlvTags :
                 y[2] <= Arity(y[1]) /\ y[3] # TlvList(y[1])[y[2]]}}

\* A frame whose declared checksum is off by ck, of a valid or an invalid
\* type, with a valid or an invalid payload.
BadTlv == TlvDesc(25, 1, <<7>>)
ChecksumOffsets == {<<0, 0>>, <<0, 1>>, <<1, 0>>, <<65535, 65535>>}
ChecksumCases ==
    {TestCase("checksum", MAGIC_NUMBER, Version1,
              x[4] \o <<FrameDesc(x[1], x[2], x[3])>>, <<0, 0>>, -1)
     : x \in {0, 3, 21, 23} \X {<<>>, <<SampleTlv(15, 1)>>, <<BadTlv>>,
                                <<SampleTlv(15, 1), SampleTlv(5, 2)>>}
             \X ChecksumOffsets \X {<<>>, <<SampleFrame(18)>>}}

\* A header whose magic differs in one byte, with any version and body.
MagicCases ==
    UNION {
      {TestCase("magic", [MAGIC_NUMBER EXCEPT ![x[1]] = v], x[2], x[3], <<0, 0>>, -1)
       : v \in OtherBytes(MAGIC_NUMBER[x[1]])}
      : x \in (1..Len(MAGIC_NUMBER)) \X {Version1, <<255, 255, 255, 255>>}
              \X {<<>>, <<SampleFrame(3)>>, <<FrameDesc(23, <<BadTlv>>, <<0, 1>>)>>}}

\* A checksum-valid frame whose first TLV, of any tag, declares a length L
\* and carries L value bytes, followed by a long path.
DeclaredLengths(tag) == {0, 1, NaturalSize(tag), NaturalSize(tag) + 1}
LongPath == TlvDesc(15, 20, [k \in 1..20 |-> 0])
LengthCases ==
    {TestCase("length", MAGIC_NUMBER, Version1,
              <<FrameDesc(21, <<TlvDesc(x[1], x[2], [k \in 1..x[2] |-> 0]), LongPath>>, <<0, 0>>)>>,
              <<0, 0>>, -1)
     : x \in {y \in TlvTags \X (0..(BTRFS_UUID_SIZE + 1)) : y[2] \in DeclaredLengths(y[1])}}

TestCases ==
    RoundTripCases \cup MutationCases \cup TruncationCases \cup ArityCases
        \cup WrongKindCases \cup ChecksumCases \cup MagicCases \cup LengthCases

---------------------------------------------------------------------------
(* BtrfsSend::try_from as a state machine: the header, then one frame per  *)
(* step of the while-let loop.                                             *)

Pending == [st |-> "pending", err |-> NoErr, commands |-> <<>>]
RetOk(cs) == [st |-> "Ok", err |-> NoErr, commands |-> cs]
RetErr(e) == [st |-> "Err", err |-> e, commands |-> <<>>]
\* &source[0..17] on a shorter vector: the slice index panics.
Panic == [st |-> "Panic", err |-> NoErr, commands |-> <<>>]

LayerIdle ==
    /\ snapshot = <<>>
    /\ queues = <<>>
    /\ lpc = "idle"
    /\ lret = ""
    /\ layer = <<>>
    /\ trace = <<>>
    /\ before = <<>>

\* Result<(), Error> of import and of its steps: NoErr is Ok(()).
IPending == [st |-> "pending", err |-> NoErr]
IOk == [st |-> "Ok", err |-> NoErr]
IErr(e) == [st |-> "Err", err |-> e]

ImportIdle ==
    /\ image = <<>>
    /\ repo = <<>>
    /\ fault = "none"
    /\ layer_stack = <<>>
    /\ layer_json = ""
    /\ last_layer_processed = ""
    /\ new_layer_name = ""
    /\ ipc = "idle"
    /\ iret = IPending
    /\ calls = <<>>
    /\ runs = <<>>

\* Option<String>
None == [some |-> FALSE, val |-> <<>>]
Some(v) == [some |-> TRUE, val |-> v]

ExportIdle ==
    /\ store = <<>>
    /\ export_args = <<>>
    /\ current_name = <<>>
    /\ stack = <<>>
    /\ lineage = IPending
    /\ sends = <<>>
    /\ parent_id = None
    /\ work_bench = <<>>
    /\ epc = "idle"
    /\ eret = IPending
    /\ materialized = <<>>

PipeIdle ==
    /\ send_stream = <<>>
    /\ pipe = <<>>
    /\ read_cache = <<>>
    /\ content = <<>>
    /\ returned = <<>>
    /\ spc = "idle"
LocationIdle ==
    /\ cwd = <<>>
    /\ located = <<>>
ExtraIdle ==
    /\ LocationIdle
    /\ PipeIdle

Init ==
    /\ tc \in TestCases
    /\ source = StreamBytes(tc)
    /\ pos = 0
    /\ commands = <<>>
    /\ ret = Pending
    /\ pc = "start"
    /\ tlvlog = <<>>
    /\ LayerIdle
    /\ ImportIdle
    /\ ExportIdle
    /\ ExtraIdle

ParseHeader ==
    /\ pc = "start"
    /\ IF Len(source) < HeaderLen
       THEN /\ ret' = Panic
            /\ pc' = "done"
            /\ pos' = pos
       ELSE LET e == parse_btrfs_header(SubSeq(source, 1, HeaderLen)) IN
            IF e # NoErr
            THEN /\ ret' = RetErr(e)
                 /\ pc' = "done"
                 /\ pos' = pos
            ELSE /\ ret' = ret
                 /\ pc' = "loop"
                 /\ pos' = HeaderLen + 1
    /\ UNCHANGED <<tc, source, commands, tlvlog>>
    /\ UNCHANGED lvars
    /\ UNCHANGED ivars
    /\ UNCHANGED evars
    /\ UNCHANGED xvars

\* A variant whose iterator is left where the frame started.
PushCommandInPlace(r) ==
    /\ r.st # "none"
    /\ tlvlog' = r.log
    /\ IF r.st = "some"
       THEN /\ commands' = Append(commands, r.cmd)
            /\ UNCHANGED <<ret, pc, pos>>
       ELSE /\ ret' = RetErr(r.err)
            /\ pc' = "done"
            /\ UNCHANGED <<commands, pos>>

\* One iteration of the loop in which parse_btrfs_command finds a byte.
PushCommand(r) ==
    /\ r.st # "none"
    /\ tlvlog' = r.log
    /\ IF r.st = "some"
       THEN /\ commands' = Append(commands, r.cmd)
            /\ pos' = r.pos
            /\ UNCHANGED <<ret, pc>>
       ELSE /\ ret' = RetErr(r.err)
            /\ pc' = "done"
            /\ UNCHANGED <<commands, pos>>

ParseCommand ==
    /\ pc = "loop"
    /\ PushCommand(parse_btrfs_command(source, pos))
    /\ UNCHANGED <<tc, source>>
    /\ UNCHANGED lvars
    /\ UNCHANGED ivars
    /\ UNCHANGED evars
    /\ UNCHANGED xvars

\* parse_btrfs_command returns None: the loop ends and the commands are returned.
ReturnCommands ==
    /\ pc = "loop"
    /\ pos > Len(source)
    /\ ret' = RetOk(commands)
    /\ pc' = "done"
    /\ UNCHANGED <<tc, source, pos, commands, tlvlog>>
    /\ UNCHANGED lvars
    /\ UNCHANGED ivars
    /\ UNCHANGED evars
    /\ UNCHANGED xvars

Next == ParseHeader \/ ParseCommand \/ ReturnCommands

Spec == Init /\ [][Next]_vars

---------------------------------------------------------------------------
(* Properties of the decoder.                                              *)

Done == pc = "done"
Failed(name) == ret.st = "Err" /\ ret.err.name = name

\* The frame that starts at byte p of s, read off the wire layout.
FrameComplete(s, p) ==
    /\ p + 9 <= Len(s)
    /\ s[p] = 0 /\ s[p + 1] = 0
    /\ p + 9 + BE16(s, p + 2) <= Len(s)
FrameTypeAt(s, p) == BE16(s, p + 4)
DeclaredAt(s, p) == <<BE16(s, p + 6), BE16(s, p + 8)>>
FramePayloadAt(s, p) == SubSeq(s, p + 10, p + 9 + BE16(s, p + 2))
ChecksumMatches(s, p) == DeclaredAt(s, p) = TrueChecksum(FramePayloadAt(s, p))

\* The field of the frames that byte o (counted from the first frame) lies in.
FrameLen(f) == 10 + Len(PayloadBytes(f))
RECURSIVE FieldAt(_, _, _)
FieldAt(frames, k, o) ==
    IF k > Len(frames) THEN "none"
    ELSE IF o > FrameLen(frames[k]) THEN FieldAt(frames, k + 1, o - FrameLen(frames[k]))
    ELSE IF o <= 4 THEN "length"
    ELSE IF o <= 6 THEN "type"
    ELSE IF o <= 10 THEN "checksum"
    ELSE "payload"
MutatedField(t) == FieldAt(t.frames, 1, t.mut[1] - HeaderLen)

\* The lengths at which a stream ends between two frames.
RECURSIVE FrameEnds(_, _)
FrameEnds(frames, k) ==
    IF k = 0 THEN HeaderLen ELSE FrameEnds(frames, k - 1) + FrameLen(frames[k])
CutInTheMiddle(t) ==
    t.cut >= 0 /\ \A k \in 0..Len(t.frames) : t.cut # FrameEnds(t.frames, k)

ExpectedCommands(t) == [i \in 1..Len(t.frames) |-> SampleCommand(t.frames[i].type)]

\* A frame decode accepts when it is the only frame of a stream.
AcceptedAlone(f) == parse_btrfs_command(FrameBytes(f), 1).st = "some"

(* C1: for every frame decode reaches and that is wholly in the buffer, a
   declared checksum that differs from the sum of the payload bytes makes
   decode fail with InvalidChecksum and no command is taken from the frame,
   whatever its command type and its TLVs are: the payload is interpreted
   only when the checksum matches. *)
C1_ChecksumBeforeInterpretation ==
    [][(pc = "loop" /\ FrameComplete(source, pos) /\ ~ChecksumMatches(source, pos))
        => /\ ret'.st = "Err"
           /\ ret'.err.name = "InvalidChecksume"
           /\ commands' = commands
           /\ tlvlog' = <<>>]_vars

\* A frame of an unknown type holding a TLV of an unknown tag, declared
\* checksum off by one, after a well-formed frame: InvalidChecksum.
C1_Witness ==
    /\ Done /\ Failed("InvalidChecksume")
    /\ Len(commands) = 1
    /\ FrameComplete(source, pos) /\ ~ChecksumMatches(source, pos)
    /\ FrameTypeAt(source, pos) = 23
    /\ FramePayloadAt(source, pos) = TlvBytes(BadTlv)

(* C2 as stated: changing any single byte of a frame of a valid stream
   (length, command type, checksum or payload) makes decode fail with
   InvalidChecksum. *)
C2_AnyByteOfAFrame ==
    (Done /\ tc.fam = "mutation") => Failed("InvalidChecksume")

(* C2, amended: changing a single byte of the checksum field or of the
   payload of a frame of a stream decode accepts makes decode fail with
   InvalidChecksum. *)
C2_ChecksumOrPayloadByte ==
    (Done /\ tc.fam = "mutation" /\ MutatedField(tc) \in {"checksum", "payload"})
        => Failed("InvalidChecksume")

\* A changed payload byte in a WRITE frame.
C2_Witness ==
    /\ Done /\ tc.fam = "mutation" /\ MutatedField(tc) = "payload"
    /\ tc.frames[1].type = 15 /\ Failed("InvalidChecksume")

(* C3: for every command type 1..22, END included, a checksum-valid frame
   holding fewer or more well-formed TLVs than the type's arity makes decode
   fail with WrongNumberOfTlvs. *)
C3_WrongArityFails ==
    (Done /\ tc.fam = "arity") => Failed("WrongNumberOfTlvs")

(* C4: for every command type and every position i of its TLV list, a
   checksum-valid frame with the right number of TLVs but a TLV of another
   kind at position i makes decode fail with UnexpectedTlv. *)
C4_WrongKindFails ==
    (Done /\ tc.fam = "wrongkind") => Failed("UnexpectedTlv")

\* A WRITE frame whose third TLV is not Data.
C4_Witness ==
    /\ Done /\ tc.fam = "wrongkind" /\ Failed("UnexpectedTlv")
    /\ tc.frames[1].type = 15
    /\ tc.frames[1].tlvs[1].tag = 15 /\ tc.frames[1].tlvs[2].tag = 18
    /\ tc.frames[1].tlvs[3].tag # 19

(* C5: decoding the frames that encode a sequence of commands of any of the
   22 kinds, after a valid header, returns exactly that sequence. *)
C5_RoundTrip ==
    (Done /\ tc.fam = "roundtrip") => ret = RetOk(ExpectedCommands(tc))

(* C6: when one of the 13 magic bytes differs and the 4 version bytes are
   there, decode fails with InvalidMagicNumber and has read no frame,
   whatever the version and the body are. *)
C6_BadMagicFailsFirst ==
    (pc # "start" /\ tc.magic # MAGIC_NUMBER /\ Len(source) >= HeaderLen)
        => /\ Done /\ Failed("InvalidMagicNumber")
           /\ pos = 0 /\ commands = <<>> /\ tlvlog = <<>>

\* The NUL that closes the magic changed, before a well-formed frame.
C6_Witness ==
    /\ Done /\ Failed("InvalidMagicNumber")
    /\ tc.magic[13] # 0 /\ SubSeq(tc.magic, 1, 12) = SubSeq(MAGIC_NUMBER, 1, 12)
    /\ tc.frames = <<SampleFrame(3)>>

(* C7: an input cut in the middle of the header, of a frame header or of a
   payload makes decode return an error value: no crash and no commands. *)
C7_TruncatedIsAnError ==
    (Done /\ tc.fam = "truncation" /\ CutInTheMiddle(tc)) => ret.st = "Err"

(* C8: an END frame does not stop decoding.  For every stream of encoded
   commands in which frames follow an END frame, decode returns End followed
   by the commands of all the later frames, and it returns commands only once
   the buffer is exhausted. *)
C8_EndDoesNotStop ==
    /\ ret.st = "Ok" => pos > Len(source)
    /\ (Done /\ tc.fam = "roundtrip" /\ Len(tc.frames) >= 2 /\ tc.frames[1].type = 21)
          => ret = RetOk(ExpectedCommands(tc))

\* C8 for the frames decode accepts on their own: this much holds.
EndDoesNotStopAccepted ==
    /\ ret.st = "Ok" => pos > Len(source)
    /\ (Done /\ tc.fam = "roundtrip" /\ \A i \in 1..Len(tc.frames) : AcceptedAlone(tc.frames[i]))
          => ret = RetOk(ExpectedCommands(tc))

(* C9: every TLV the decoder reads takes exactly 4 + L bytes of the
   payload, L its declared length: the next TLV is read right after the
   declared value. *)
C9_TlvTakesDeclaredLength ==
    \A i \in 1..Len(tlvlog) : tlvlog[i].next - tlvlog[i].start = 4 + tlvlog[i].len

\* The fixed part of a frame: length (u32), type (u16), checksum (u32); of a
\* TLV: type (u16), length (u16).
FrameHeaderLen == 4 + 2 + 4
TlvHeaderLen == 2 + 2
LongEnough == Len(source) >= HeaderLen

\* What is left to do: the bytes not yet taken, and the return.
Remaining ==
    IF pc = "start" THEN Len(source) + 3
    ELSE IF pc = "loop" THEN Len(source) + 2 - pos
    ELSE 0
\* A decode that has not returned can take a step.
CanStep ==
    pc = "loop" =>
        /\ pos <= Len(source) + 1
        /\ pos <= Len(source) => parse_btrfs_command(source, pos).st # "none"

(* C28: decode of a stream of at least 17 bytes terminates: every turn of
   the frame loop that does not return takes at least 10 bytes, every TLV
   read takes at least 4 bytes of the payload, the commands collected are
   never more than (length - 17) / 10, and decode returns in the end:
   every step leaves less to do than was left before it, and a decode
   that has not returned can always take a step. *)
C28_DecodeTerminates ==
    /\ [][/\ (pc = "loop" /\ pc' = "loop") => pos' >= pos + FrameHeaderLen
          /\ \A i \in 1..Len(tlvlog') :
                tlvlog'[i].next >= tlvlog'[i].start + TlvHeaderLen
          /\ LongEnough => FrameHeaderLen * Len(commands') <= Len(source) - HeaderLen
          /\ Remaining' < Remaining /\ Remaining' >= 0]_vars
    /\ []CanStep

\* Two frames of ten bytes each were decoded, and, in another decode, an
\* Inode TLV that took just its four bytes.
C28_Witness ==
    /\ Done /\ ret.st = "Ok"
    /\ \/ Len(commands) = 2 /\ Len(source) = HeaderLen + 2 * FrameHeaderLen
       \/ \E i \in 1..Len(tlvlog) :
             tlvlog[i].tag = 3 /\ tlvlog[i].next = tlvlog[i].start + TlvHeaderLen

---------------------------------------------------------------------------
(* Part II.  A layer tar applied onto a snapshot (src/src/images.rs).      *)
(*                                                                         *)
(* A file name is a sequence of tokens: "W" stands for the four characters *)
(* ".wh.", "Q" for ".opq", every other token for one character that is     *)
(* part of neither.  A path is a sequence of names, relative to the        *)
(* snapshot; <<>> is the snapshot directory itself.  A tree maps the       *)
(* paths that exist to their kind and content.                             *)

MaxEntries == 3      \* entries in a layer tar

Root == <<>>
OpaqueName == <<"W", "W", "Q">>
Whiteout(name) == <<"W">> \o name

Parent(path) == SubSeq(path, 1, Len(path) - 1)
FileName(path) == path[Len(path)]
IsPrefix(p, q) == Len(p) <= Len(q) /\ SubSeq(q, 1, Len(p)) = p

\* file_name.starts_with(".wh.")
starts_with_wh(name) == Len(name) >= 1 /\ name[1] = "W"
IsPlain(token) == token # "W"
\* file_name.replace(".wh.", ""): every occurrence goes.
replace_wh(name) == SelectSeq(name, IsPlain)
\* original_path.with_file_name(n): an empty n leaves the parent.
with_file_name(path, n) == IF n = <<>> THEN Parent(path) ELSE Append(Parent(path), n)

Node(kind, data) == [kind |-> kind, data |-> data]
Exists(fs, path) == path \in DOMAIN fs
\* Path::is_dir
is_dir(fs, path) == path \in DOMAIN fs /\ fs[path].kind = "dir"
\* read_dir(dir): the entries of the directory
read_dir(fs, dir) == {q \in DOMAIN fs : Len(q) = Len(dir) + 1 /\ IsPrefix(dir, q)}
Without(fs, gone) == [q \in DOMAIN fs \ gone |-> fs[q]]
\* remove_dir_all(path): the directory and all below it
remove_dir_all(fs, path) == Without(fs, {q \in DOMAIN fs : IsPrefix(path, q)})
\* remove_file(path) succeeds on an existing entry that is not a directory
can_remove_file(fs, path) == path \in DOMAIN fs /\ fs[path].kind # "dir"
remove_file(fs, path) == Without(fs, {path})

\* Entry::unpack(dst) of the tar crate, as apply_modifications calls it: the
\* parent must be a directory; a directory entry is created unless it is
\* there, a file entry replaces a file and cannot replace a directory.
can_unpack(fs, e) ==
    /\ is_dir(fs, Parent(e.path))
    /\ IF e.kind = "dir" THEN ~Exists(fs, e.path) \/ is_dir(fs, e.path)
       ELSE ~is_dir(fs, e.path)
unpack(fs, e) ==
    IF e.kind = "dir" /\ is_dir(fs, e.path) THEN fs
    ELSE [q \in DOMAIN fs \cup {e.path} |->
            IF q = e.path THEN Node(e.kind, e.data) ELSE fs[q]]

Entry(path, kind) == [path |-> path, kind |-> kind, data |-> "layer"]

\* The entries a layer tar is made of, and the trees it is applied onto.
F == <<"f">>
G == <<"g">>
D == <<"d">>
S == <<"s">>
FG == <<"f", "g">>          \* the name fg
FWG == <<"f", "W", "g">>    \* the name f.wh.g
EntryPool ==
    { Entry(<<Whiteout(F)>>, "file"), Entry(<<F>>, "file"), Entry(<<Whiteout(FWG)>>, "file"),
      Entry(<<OpaqueName>>, "file"), Entry(<<D, OpaqueName>>, "file"),
      Entry(<<D, G>>, "file"), Entry(<<D>>, "dir"), Entry(<<D, Whiteout(G)>>, "file") }

RECURSIVE Arrangements(_, _)
Arrangements(pool, n) ==
    IF n = 0 THEN {<<>>}
    ELSE {<<>>} \cup UNION {{<<e>> \o rest : rest \in Arrangements(pool \ {e}, n - 1)} : e \in pool}
Layers == Arrangements(EntryPool, MaxEntries) \ {<<>>}

Tree(nodes) ==
    [q \in {Root} \cup {n[1] : n \in nodes} |->
        IF q = Root THEN Node("dir", "")
        ELSE Node((CHOOSE n \in nodes : n[1] = q)[2], "before")]
Snapshots ==
    { Tree({}),
      Tree({<<<<F>>, "file">>, <<<<G>>, "file">>}),
      Tree({<<<<F>>, "file">>, <<<<D>>, "dir">>, <<<<D, G>>, "file">>}),
      Tree({<<<<F>>, "dir">>, <<<<F, G>>, "file">>, <<<<D>>, "dir">>, <<<<D, S>>, "dir">>,
            <<<<D, S, G>>, "file">>}),
      Tree({<<<<D>>, "file">>, <<<<G>>, "file">>}),
      Tree({<<<<F>>, "file">>, <<<<FWG>>, "file">>, <<<<FG>>, "file">>}) }

DecoderIdle ==
    /\ tc = <<>>
    /\ source = <<>>
    /\ pos = 0
    /\ commands = <<>>
    /\ ret = Pending
    /\ pc = "idle"
    /\ tlvlog = <<>>

LayerInit ==
    /\ layer \in Layers
    /\ snapshot \in Snapshots
    /\ before = snapshot
    /\ queues = <<>>
    /\ lpc = "start"
    /\ lret = ""
    /\ trace = <<>>
    /\ DecoderIdle
    /\ ImportIdle
    /\ ExportIdle
    /\ ExtraIdle

Step(op, path) == [op |-> op, path |-> path]

IsOpaque(e) == FileName(e.path) = OpaqueName
IsWhiteout(e) == ~IsOpaque(e) /\ starts_with_wh(FileName(e.path))
IsModification(e) == ~IsOpaque(e) /\ ~starts_with_wh(FileName(e.path))

\* create_steps_queues: the entries in tar order, each to its queue; an
\* entry whose path has no file name ends it with NoNamePath.
CreateStepsQueues ==
    /\ lpc = "start"
    /\ IF \E i \in 1..Len(layer) : layer[i].path = Root
       THEN /\ lret' = "Err"
            /\ lpc' = "done"
            /\ UNCHANGED queues
       ELSE /\ queues' = [opaque_whiteouts |-> SelectSeq(layer, IsOpaque),
                          whiteouts |-> SelectSeq(layer, IsWhiteout),
                          modifications |-> SelectSeq(layer, IsModification)]
            /\ lpc' = "apply"
            /\ UNCHANGED lret
    /\ UNCHANGED <<snapshot, layer, trace, before>>
    /\ UNCHANGED dvars
    /\ UNCHANGED ivars
    /\ UNCHANGED evars
    /\ UNCHANGED xvars

LayerFails ==
    /\ lret' = "Err"
    /\ lpc' = "done"
    /\ UNCHANGED queues

\* apply_opaque_whiteouts, one marker: remove_file on every entry of the
\* marker's directory, in the order read_dir yields them.  A directory among
\* them makes remove_file fail, after the files read_dir yielded before it.
OpaqueStep(dir) ==
    /\ trace' = Append(trace, Step("opaque", dir))
    /\ IF ~is_dir(snapshot, dir)
       THEN LayerFails /\ UNCHANGED snapshot
       ELSE IF \A q \in read_dir(snapshot, dir) : can_remove_file(snapshot, q)
       THEN /\ snapshot' = Without(snapshot, read_dir(snapshot, dir))
            /\ queues' = [queues EXCEPT !.opaque_whiteouts = Tail(@)]
            /\ UNCHANGED <<lret, lpc>>
       ELSE /\ \E removed \in SUBSET {q \in read_dir(snapshot, dir) : can_remove_file(snapshot, q)} :
                 snapshot' = Without(snapshot, removed)
            /\ LayerFails

ApplyOpaqueWhiteout ==
    /\ lpc = "apply"
    /\ queues.opaque_whiteouts # <<>>
    /\ OpaqueStep(Parent(Head(queues.opaque_whiteouts).path))
    /\ UNCHANGED <<layer, before>>
    /\ UNCHANGED dvars
    /\ UNCHANGED ivars
    /\ UNCHANGED evars
    /\ UNCHANGED xvars

\* apply_whiteouts, one whiteout.
WhiteoutStep(path) ==
    /\ trace' = Append(trace, Step("whiteout", path))
    /\ IF is_dir(snapshot, path)
       THEN /\ snapshot' = remove_dir_all(snapshot, path)
            /\ queues' = [queues EXCEPT !.whiteouts = Tail(@)]
            /\ UNCHANGED <<lret, lpc>>
       ELSE IF can_remove_file(snapshot, path)
       THEN /\ snapshot' = remove_file(snapshot, path)
            /\ queues' = [queues EXCEPT !.whiteouts = Tail(@)]
            /\ UNCHANGED <<lret, lpc>>
       ELSE LayerFails /\ UNCHANGED snapshot

\* A variant that takes the whiteout entry itself for the sibling.
WhiteoutTargetUnstripped(path) == path
WhiteoutTarget(path) == with_file_name(path, replace_wh(FileName(path)))

ApplyWhiteout ==
    /\ lpc = "apply"
    /\ queues.opaque_whiteouts = <<>>
    /\ queues.whiteouts # <<>>
    /\ WhiteoutStep(WhiteoutTarget(Head(queues.whiteouts).path))
    /\ UNCHANGED <<layer, before>>
    /\ UNCHANGED dvars
    /\ UNCHANGED ivars
    /\ UNCHANGED evars
    /\ UNCHANGED xvars

\* apply_modifications, one entry.
ModificationStep(e) ==
    /\ trace' = Append(trace, Step("unpack", e.path))
    /\ IF can_unpack(snapshot, e)
       THEN /\ snapshot' = unpack(snapshot, e)
            /\ queues' = [queues EXCEPT !.modifications = Tail(@)]
            /\ UNCHANGED <<lret, lpc>>
       ELSE LayerFails /\ UNCHANGED snapshot

ApplyModification ==
    /\ lpc = "apply"
    /\ queues.opaque_whiteouts = <<>>
    /\ queues.whiteouts = <<>>
    /\ queues.modifications # <<>>
    /\ ModificationStep(Head(queues.modifications))
    /\ UNCHANGED <<layer, before>>
    /\ UNCHANGED dvars
    /\ UNCHANGED ivars
    /\ UNCHANGED evars
    /\ UNCHANGED xvars

\* from_layer_to_snapshot returns Ok(()).
LayerApplied ==
    /\ lpc = "apply"
    /\ queues.opaque_whiteouts = <<>>
    /\ queues.whiteouts = <<>>
    /\ queues.modifications = <<>>
    /\ lret' = "Ok"
    /\ lpc' = "done"
    /\ UNCHANGED <<snapshot, queues, layer, trace, before>>
    /\ UNCHANGED dvars
    /\ UNCHANGED ivars
    /\ UNCHANGED evars
    /\ UNCHANGED xvars

LayerNext ==
    \/ CreateStepsQueues
    \/ ApplyOpaqueWhiteout
    \/ ApplyWhiteout
    \/ ApplyModification
    \/ LayerApplied

LayerSpec == LayerInit /\ [][LayerNext]_vars

---------------------------------------------------------------------------
(* Properties of the application of a layer.                               *)

Rank(op) == CASE op = "opaque" -> 1 [] op = "whiteout" -> 2 [] OTHER -> 3
InOrder(steps) == \A i, j \in 1..Len(steps) : i < j => Rank(steps[i].op) <= Rank(steps[j].op)

HasEntry(path) == \E i \in 1..Len(layer) : layer[i].path = path

(* C10: whatever the order of the entries in the tar, the opaque-whiteout
   removals come before the single-whiteout removals and all of them before
   any entry is unpacked; so a layer holding both .wh.f and a new entry f
   ends with the new f present. *)
C10_WhiteoutsThenModifications ==
    /\ InOrder(trace)
    /\ (lpc = "done" /\ HasEntry(<<Whiteout(F)>>) /\ HasEntry(<<F>>))
          => /\ Exists(snapshot, <<F>>)
             /\ snapshot[<<F>>].data = "layer"

\* The order alone.
StepsInOrder == InOrder(trace)

\* The sibling a whiteout entry names: the file name without its prefix.
Sibling(path) == Append(Parent(path), Tail(FileName(path)))
Under(dir, q) == IsPrefix(dir, q) /\ q # dir
SameOutside(gone(_)) ==
    /\ DOMAIN snapshot = {q \in DOMAIN before : ~gone(q)}
    /\ \A q \in DOMAIN snapshot : snapshot[q] = before[q]

(* C11: a layer whose only entry is the whiteout .wh.n, n any name (one
   that contains .wh. included), applied onto a destination that contains
   the sibling n, leaves n absent, with all below it, and every other entry
   of the destination as it was. *)
C11_WhiteoutRemovesSibling ==
    (/\ lpc = "done" /\ Len(layer) = 1 /\ IsWhiteout(layer[1])
     /\ Exists(before, Sibling(layer[1].path)))
        => /\ lret = "Ok"
           /\ SameOutside(LAMBDA q : IsPrefix(Sibling(layer[1].path), q))

\* C11 for the names that do not contain .wh.: this much holds.
PlainWhiteoutRemovesSibling ==
    (/\ lpc = "done" /\ Len(layer) = 1 /\ IsWhiteout(layer[1])
     /\ replace_wh(Tail(FileName(layer[1].path))) = Tail(FileName(layer[1].path))
     /\ Exists(before, Sibling(layer[1].path)))
        => /\ lret = "Ok"
           /\ SameOutside(LAMBDA q : IsPrefix(Sibling(layer[1].path), q))

(* C12: a layer with the opaque marker .wh..wh..opq in a directory D of the
   destination: once the opaque whiteouts are done, and so before any
   modification is unpacked, no entry that was in D is left, file or
   subdirectory; and the marker alone removes nothing outside D. *)
C12_OpaqueClearsDirectory ==
    \A i \in 1..Len(layer) :
        (/\ IsOpaque(layer[i]) /\ is_dir(before, Parent(layer[i].path))
         /\ lpc = "done" \/ (lpc = "apply" /\ queues.opaque_whiteouts = <<>>))
            => /\ \A q \in DOMAIN before :
                    Under(Parent(layer[i].path), q)
                        => ~Exists(snapshot, q) \/ snapshot[q].data = "layer"
               /\ Len(layer) = 1 => SameOutside(LAMBDA q : Under(Parent(layer[1].path), q))

\* C12 when no marker of the layer is in a directory that holds a
\* subdirectory: this much holds.
OnlyFilesIn(dir) == is_dir(before, dir) /\ \A q \in read_dir(before, dir) : ~is_dir(before, q)
OpaqueClearsFiles ==
    \A i \in 1..Len(layer) :
        (/\ IsOpaque(layer[i]) /\ is_dir(before, Parent(layer[i].path))
         /\ \A j \in 1..Len(layer) : IsOpaque(layer[j]) => OnlyFilesIn(Parent(layer[j].path))
         /\ lpc = "done" \/ (lpc = "apply" /\ queues.opaque_whiteouts = <<>>))
            => /\ \A q \in DOMAIN before :
                    Under(Parent(layer[i].path), q)
                        => ~Exists(snapshot, q) \/ snapshot[q].data = "layer"
               /\ Len(layer) = 1 => SameOutside(LAMBDA q : Under(Parent(layer[1].path), q))

---------------------------------------------------------------------------
(* Part III.  OCIImage::import (src/src/oci_image.rs) into the repository  *)
(* of src/src/images.rs.                                                   *)
(*                                                                         *)
(* tar_content is the unpacked tarball: the repositories file (a map from  *)
(* image names to the id of their latest layer) and one directory per      *)
(* layer id holding json (of which the parent matters) and layer.tar.  The *)
(* repository maps the names of its subvolumes to their trees.  The btrfs  *)
(* ioctls are taken by their contract: create and snapshot fail with       *)
(* EEXIST on a name in use, and with the error `fault` when the repository *)
(* refuses writes.                                                         *)

MaxLayers == 3     \* layers in a tarball
MaxImports == 2    \* imports of the same tarball in a row

\* A nix::Error::Sys(errno) and a std::io::Error, both inside failure::Error.
SysErr(errno) == Err("Sys", <<errno>>)
IoErr(errno) == Err("Io", <<errno>>)

\* Variants of recover_from_eexist: one swallows every error, one swallows none.
recover_from_any(result) == NoErr
recover_from_nothing(result) == result

\* recover_from_eexist: the error is swallowed when it downcasts to
\* nix::Error::Sys(EEXIST).
recover_from_eexist(result) ==
    IF result = SysErr("EEXIST") THEN NoErr ELSE result

\* A variant that names every layer by its id.
layer_name_by_id(container_name, layer_id, pending_layers) == layer_id

\* layer_name: the image name for the last layer, else the file name of the
\* layer's directory, its id.
layer_name(container_name, layer_id, pending_layers) ==
    IF pending_layers = <<>> THEN container_name ELSE layer_id

EmptyRepo == [n \in {} |-> <<>>]
EmptyTree == Tree({})
WithSubvolume(r, name, tree) ==
    [n \in DOMAIN r \cup {name} |-> IF n = name THEN tree ELSE r[n]]

\* Archive::unpack(dst) of the tar crate, as create_image_from_path calls it
\* on the new subvolume: the entries in tar order, each with the directories
\* above it created when missing.
Ancestors(path) == {SubSeq(path, 1, k) : k \in 1..(Len(path) - 1)}
can_unpack_in(fs, e) ==
    /\ \A q \in Ancestors(e.path) : ~Exists(fs, q) \/ is_dir(fs, q)
    /\ IF e.kind = "dir" THEN ~Exists(fs, e.path) \/ is_dir(fs, e.path)
       ELSE ~is_dir(fs, e.path)
create_dir_all(fs, dirs) ==
    [q \in DOMAIN fs \cup dirs |-> IF q \in DOMAIN fs THEN fs[q] ELSE Node("dir", "layer")]
unpack_in(fs, e) == unpack(create_dir_all(fs, Ancestors(e.path)), e)

Unpacked(err, fs) == [err |-> err, fs |-> fs]
RECURSIVE archive_unpack_from(_, _, _)
archive_unpack_from(fs, entries, i) ==
    IF i > Len(entries) THEN Unpacked(NoErr, fs)
    ELSE IF ~can_unpack_in(fs, entries[i]) THEN Unpacked(IoErr("EEXIST"), fs)
    ELSE archive_unpack_from(unpack_in(fs, entries[i]), entries, i + 1)
archive_unpack(fs, entries) == archive_unpack_from(fs, entries, 1)

\* What a repository call leaves: its result and the repository.
Called(err, r) == [err |-> err, repo |-> r]

\* The faults: a repository that refuses every write, and a process that
\* has no file descriptor left for File::open of a layer.tar.
RepositoryFaults == {"EROFS"}
OpenFaults == {"EMFILE"}

\* create_image_subvolume: BTRFS_IOC_SUBVOL_CREATE in the repository.
create_image_subvolume(r, flt, name) ==
    IF flt \in RepositoryFaults THEN Called(SysErr(flt), r)
    ELSE IF name \in DOMAIN r THEN Called(SysErr("EEXIST"), r)
    ELSE Called(NoErr, WithSubvolume(r, name, EmptyTree))

\* create_image_snapshot: BTRFS_IOC_SNAP_CREATE of the parent subvolume.
create_image_snapshot(r, flt, parent, name) ==
    IF parent \notin DOMAIN r THEN Called(SysErr("ENOENT"), r)
    ELSE IF flt \in RepositoryFaults THEN Called(SysErr(flt), r)
    ELSE IF name \in DOMAIN r THEN Called(SysErr("EEXIST"), r)
    ELSE Called(NoErr, WithSubvolume(r, name, r[parent]))

\* create_image_from_path: the subvolume, then layer.tar unpacked into it.
open_layer_tar(flt, l) ==
    IF flt \in OpenFaults THEN IoErr(flt)
    ELSE IF ~l.has_tar THEN IoErr("ENOENT")
    ELSE NoErr
unpack_layer_tar(r, flt, name, l) ==
    IF open_layer_tar(flt, l) # NoErr THEN Called(open_layer_tar(flt, l), r)
    ELSE Called(archive_unpack(r[name], l.tar).err,
                WithSubvolume(r, name, archive_unpack(r[name], l.tar).fs))
create_image_from_path_created(c, flt, name, l) ==
    IF c.err # NoErr THEN c ELSE unpack_layer_tar(c.repo, flt, name, l)
create_image_from_path(r, flt, name, l) ==
    create_image_from_path_created(create_image_subvolume(r, flt, name), flt, name, l)

\* One call of the repository by import_from_layer_stack (ghost).
Call(op, id, name, parent, last, result) ==
    [op |-> op, layer |-> id, name |-> name, parent |-> parent, last |-> last,
     result |-> result]

\* The tarballs handed to import.
LayerDir(parent, has_tar, tar) == [parent |-> parent, has_tar |-> has_tar, tar |-> tar]
LayerId(k) == <<"L1", "L2", "L3", "L4", "L5">>[k]
Bin == <<"b", "i", "n">>
Sh == <<"s", "h">>
LayerTars ==
    { <<Entry(<<Bin, Sh>>, "file")>>,
      <<Entry(<<Whiteout(Bin)>>, "file")>>,
      <<Entry(<<F>>, "file"), Entry(<<D, G>>, "file")>>,
      <<Entry(<<Whiteout(F)>>, "file"), Entry(<<F>>, "file")>>,
      <<Entry(<<D, OpaqueName>>, "file"), Entry(<<D, S>>, "dir")>> }
\* The chain L1 <- L2 <- ... of layers with the given tars, L1 the base.
LayerChain(tars) ==
    [id \in {LayerId(k) : k \in 1..Len(tars)} |->
        LET k == CHOOSE j \in 1..Len(tars) : LayerId(j) = id
        IN LayerDir(IF k = 1 THEN "none" ELSE LayerId(k - 1), TRUE, tars[k])]
Repositories(keys, latest) == [n \in keys |-> latest]
OCIImage(name, readable, repositories, layers) ==
    [name |-> name, readable |-> readable, repositories |-> repositories, layers |-> layers]
ImageOf(name, tars) ==
    OCIImage(name, TRUE, Repositories({name}, LayerId(Len(tars))), LayerChain(tars))

TarChains == UNION {[1..n -> LayerTars] : n \in 1..MaxLayers}
ShortChains == UNION {[1..n -> LayerTars] : n \in 1..2}
ImportCase(img, r, flt) == [image |-> img, repo |-> r, fault |-> flt]
OldTree == Tree({<<<<G>>, "file">>})

\* Into an empty repository.
CleanImports == {ImportCase(ImageOf("img", tars), EmptyRepo, "none") : tars \in TarChains}
\* Into a repository that holds a subvolume of one of the names, or that
\* refuses writes, or with an image named as its base layer.
CollidingImports ==
    {ImportCase(ImageOf("img", tars), WithSubvolume(EmptyRepo, n, OldTree), "none")
        : tars \in ShortChains, n \in {"img", "L1"}}
    \cup {ImportCase(ImageOf("img", tars), EmptyRepo, "EROFS") : tars \in ShortChains}
    \cup {ImportCase(ImageOf("L1", tars), EmptyRepo, "none") : tars \in ShortChains}
\* A layer directory without layer.tar.
NoTarImports ==
    {ImportCase([ImageOf("img", tars) EXCEPT !.layers[LayerId(k)].has_tar = FALSE],
                EmptyRepo, "none")
        : tars \in ShortChains, k \in 1..2} 
\* A repositories file without the image's key, or none at all; a latest
\* layer or a parent that is not in the tarball.
OtherKeys == {{}, {"other"}, {"other", "more"}}
BadRepositories ==
    {ImportCase([ImageOf("img", tars) EXCEPT !.repositories = Repositories(keys, "L1")],
                r, "none")
        : tars \in ShortChains, keys \in OtherKeys,
          r \in {EmptyRepo, WithSubvolume(EmptyRepo, "L1", OldTree)}}
    \cup {ImportCase([ImageOf("img", tars) EXCEPT !.readable = FALSE], EmptyRepo, "none")
            : tars \in ShortChains}
    \cup {ImportCase([ImageOf("img", tars) EXCEPT !.repositories = Repositories({"img"}, "L9")],
                     EmptyRepo, "none") : tars \in ShortChains}
    \cup {ImportCase([ImageOf("img", tars) EXCEPT !.layers["L1"].parent = "L9"],
                     EmptyRepo, "none") : tars \in ShortChains}
\* A json that names as parent a layer that descends from it.
CyclicImports ==
    {ImportCase([ImageOf("img", tars) EXCEPT !.layers["L1"].parent = p], EmptyRepo, "none")
        : tars \in [1..2 -> LayerTars], p \in {"L1", "L2"}}
\* An import in a process that cannot open layer.tar.
InterruptedImports ==
    {ImportCase(ImageOf("img", tars), EmptyRepo, "EMFILE") : tars \in ShortChains}
ImportCases ==
    CleanImports \cup CollidingImports \cup NoTarImports \cup BadRepositories
    \cup CyclicImports \cup InterruptedImports

Run(result, r, cs) == [ret |-> result, repo |-> r, calls |-> cs]

ImportInit ==
    /\ \E c \in ImportCases :
        /\ image = c.image
        /\ repo = c.repo
        /\ fault = c.fault
        /\ runs = <<Run(IPending, c.repo, <<>>)>>
    /\ layer_stack = <<>>
    /\ layer_json = ""
    /\ last_layer_processed = ""
    /\ new_layer_name = ""
    /\ ipc = "start"
    /\ iret = IPending
    /\ calls = <<>>
    /\ LayerIdle
    /\ DecoderIdle
    /\ ExportIdle
    /\ ExtraIdle

ImportFails(e) ==
    /\ iret' = IErr(e)
    /\ ipc' = "done"

\* The orders in which a HashMap yields its keys.
KeyOrders(keys) ==
    {o \in [1..Cardinality(keys) -> keys] : \A i, j \in 1..Cardinality(keys) : o[i] = o[j] => i = j}

\* extract_latest_content
RepositoryFileIncomplete(name, keys) == Err("RepositoryFileIncomplete", <<name, keys>>)
\* A variant that falls back on the latest layer of any image of the file.
has_latest_content_of_any(repositories_content, name) == DOMAIN repositories_content # {}
has_latest_content(repositories_content, name) == name \in DOMAIN repositories_content
latest_content(repositories_content, name) ==
    IF name \in DOMAIN repositories_content THEN repositories_content[name]
    ELSE repositories_content[CHOOSE n \in DOMAIN repositories_content : TRUE]

\* read_to_string(tar_content/<id>/json) and from_str
has_json(id) == id \in DOMAIN image.layers

\* import, up to the first json read of build_layer_stack.
StartLayerStack(latest) ==
    IF ~has_json(latest)
    THEN ImportFails(IoErr("ENOENT")) /\ UNCHANGED <<layer_stack, layer_json>>
    ELSE /\ layer_stack' = <<latest>>
         /\ layer_json' = latest
         /\ ipc' = "build"
         /\ UNCHANGED iret

ImportStart ==
    /\ ipc = "start"
    /\ IF ~image.readable
       THEN ImportFails(IoErr("ENOENT")) /\ UNCHANGED <<layer_stack, layer_json>>
       ELSE IF ~has_latest_content(image.repositories, image.name)
       THEN /\ \E keys \in KeyOrders(DOMAIN image.repositories) :
                 ImportFails(RepositoryFileIncomplete(image.name, keys))
            /\ UNCHANGED <<layer_stack, layer_json>>
       ELSE StartLayerStack(latest_content(image.repositories, image.name))
    /\ UNCHANGED <<image, repo, fault, last_layer_processed, new_layer_name, calls, runs>>
    /\ UNCHANGED <<dvars, lvars>>
    /\ UNCHANGED evars
    /\ UNCHANGED xvars

\* build_layer_stack: one iteration of its loop.  The Vec grows without a
\* limit in the code; here the walk is followed for MaxWalk layers.
MaxWalk == 2 * MaxLayers
\* A variant that puts the parent in front of the layers already found.
PushParentInFront(parent) ==
    /\ layer_stack' = <<parent>> \o layer_stack
    /\ IF ~has_json(parent)
       THEN ImportFails(IoErr("ENOENT")) /\ UNCHANGED layer_json
       ELSE /\ layer_json' = parent
            /\ UNCHANGED <<ipc, iret>>
PushParent(parent) ==
    /\ layer_stack' = Append(layer_stack, parent)
    /\ IF ~has_json(parent)
       THEN ImportFails(IoErr("ENOENT")) /\ UNCHANGED layer_json
       ELSE /\ layer_json' = parent
            /\ UNCHANGED <<ipc, iret>>

BuildLayerStack ==
    /\ ipc = "build"
    /\ image.layers[layer_json].parent # "none"
    /\ Len(layer_stack) < MaxWalk
    /\ PushParent(image.layers[layer_json].parent)
    /\ UNCHANGED <<image, repo, fault, last_layer_processed, new_layer_name, calls, runs>>
    /\ UNCHANGED <<dvars, lvars>>
    /\ UNCHANGED evars
    /\ UNCHANGED xvars

Pop(vec) == SubSeq(vec, 1, Len(vec) - 1)
Last(vec) == vec[Len(vec)]

\* import_from_layer_stack up to its loop: the base layer.
FirstLayer(id, name, c) ==
    /\ last_layer_processed' = name
    /\ layer_stack' = Pop(layer_stack)
    /\ repo' = c.repo
    /\ calls' = Append(calls, Call("create", id, name, "", Pop(layer_stack) = <<>>, c.err))
    /\ IF recover_from_eexist(c.err) # NoErr
       THEN ImportFails(recover_from_eexist(c.err))
       ELSE ipc' = "loop" /\ UNCHANGED iret

ImportFirstLayer ==
    /\ ipc = "build"
    /\ image.layers[layer_json].parent = "none"
    /\ FirstLayer(Last(layer_stack),
                  layer_name(image.name, Last(layer_stack), Pop(layer_stack)),
                  create_image_from_path(repo, fault,
                        layer_name(image.name, Last(layer_stack), Pop(layer_stack)),
                        image.layers[Last(layer_stack)]))
    /\ UNCHANGED <<image, fault, layer_json, new_layer_name, runs>>
    /\ UNCHANGED <<dvars, lvars>>
    /\ UNCHANGED evars
    /\ UNCHANGED xvars

\* One iteration of the loop of import_from_layer_stack, up to the call of
\* from_layer_to_snapshot inside create_layer_for_image.
NextLayer(id, name, c) ==
    /\ new_layer_name' = name
    /\ layer_stack' = Pop(layer_stack)
    /\ repo' = c.repo
    /\ calls' = Append(calls, Call("snapshot", id, name, last_layer_processed,
                                   Pop(layer_stack) = <<>>, c.err))
    /\ IF c.err # NoErr
       THEN /\ IF recover_from_eexist(c.err) # NoErr
               THEN ImportFails(recover_from_eexist(c.err)) /\ UNCHANGED last_layer_processed
               ELSE /\ last_layer_processed' = name
                    /\ UNCHANGED <<ipc, iret>>
            /\ UNCHANGED lvars
       ELSE IF open_layer_tar(fault, image.layers[id]) # NoErr
       THEN /\ ImportFails(open_layer_tar(fault, image.layers[id]))
            /\ UNCHANGED last_layer_processed
            /\ UNCHANGED lvars
       ELSE /\ ipc' = "applying"
            /\ snapshot' = c.repo[name]
            /\ before' = c.repo[name]
            /\ layer' = image.layers[id].tar
            /\ lpc' = "start"
            /\ lret' = ""
            /\ queues' = <<>>
            /\ trace' = <<>>
            /\ UNCHANGED <<iret, last_layer_processed>>

ImportNextLayer ==
    /\ ipc = "loop"
    /\ layer_stack # <<>>
    /\ NextLayer(Last(layer_stack),
                 layer_name(image.name, Last(layer_stack), Pop(layer_stack)),
                 create_image_snapshot(repo, fault, last_layer_processed,
                        layer_name(image.name, Last(layer_stack), Pop(layer_stack))))
    /\ UNCHANGED <<image, fault, layer_json, runs>>
    /\ UNCHANGED dvars
    /\ UNCHANGED evars
    /\ UNCHANGED xvars

\* from_layer_to_snapshot returns to create_layer_for_image, and that to the loop.
LayerReturns ==
    /\ ipc = "applying"
    /\ lpc = "done"
    /\ repo' = WithSubvolume(repo, new_layer_name, snapshot)
    /\ lpc' = "idle"
    /\ IF lret = "Ok"
       THEN /\ last_layer_processed' = new_layer_name
            /\ ipc' = "loop"
            /\ UNCHANGED iret
       ELSE /\ ImportFails(IoErr("layer"))
            /\ UNCHANGED last_layer_processed
    /\ UNCHANGED <<image, fault, layer_stack, layer_json, new_layer_name, calls, runs>>
    /\ UNCHANGED <<snapshot, queues, lret, layer, trace, before>>
    /\ UNCHANGED dvars
    /\ UNCHANGED evars
    /\ UNCHANGED xvars

\* The loop ends: import returns Ok(()).
ImportReturns ==
    /\ ipc = "loop"
    /\ layer_stack = <<>>
    /\ iret' = IOk
    /\ ipc' = "done"
    /\ UNCHANGED <<image, repo, fault, layer_stack, layer_json, last_layer_processed,
                   new_layer_name, calls, runs>>
    /\ UNCHANGED <<dvars, lvars>>
    /\ UNCHANGED evars
    /\ UNCHANGED xvars

\* The same tarball is imported again into the repository as it is now; the
\* process that runs it has file descriptors left.
ImportAgain ==
    /\ ipc = "done"
    /\ Len(runs) < MaxImports
    /\ runs' = Append(runs, Run(iret, repo, calls))
    /\ layer_stack' = <<>>
    /\ layer_json' = ""
    /\ last_layer_processed' = ""
    /\ new_layer_name' = ""
    /\ ipc' = "start"
    /\ iret' = IPending
    /\ calls' = <<>>
    /\ fault' = IF fault \in OpenFaults THEN "none" ELSE fault
    /\ UNCHANGED <<image, repo>>
    /\ UNCHANGED <<dvars, lvars>>
    /\ UNCHANGED evars
    /\ UNCHANGED xvars

ImportNext ==
    \/ ImportStart
    \/ BuildLayerStack
    \/ ImportFirstLayer
    \/ ImportNextLayer
    \/ LayerReturns
    \/ ImportReturns
    \/ ImportAgain
    \/ LayerNext

ImportSpec == ImportInit /\ [][ImportNext]_vars
\* import runs on: a turn of the loop of build_layer_stack that can be taken
\* is taken, and so is the return of build_layer_stack.
ImportLiveSpec == ImportSpec /\ WF_vars(BuildLayerStack) /\ WF_vars(ImportFirstLayer)

---------------------------------------------------------------------------
(* Properties of import.                                                   *)

ImportDone == ipc = "done"
StartRepo == Last(runs).repo
FirstImport == Len(runs) = 1
Collides(c) == c.result = SysErr("EEXIST")
ScenarioB ==
    ImageOf("img", <<<<Entry(<<Bin, Sh>>, "file")>>, <<Entry(<<Whiteout(Bin)>>, "file")>>>>)

(* C13: a tarball of two layers, the base holding bin/sh and the child only
   the whiteout .wh.bin, imported into a repository that accepts writes and
   holds no subvolume of the names used: import succeeds and the subvolume
   named after the image has no entry bin. *)
C13_WhiteoutOfBaseDirectory ==
    (/\ ImportDone /\ FirstImport /\ image = ScenarioB /\ fault = "none"
     /\ DOMAIN StartRepo \cap {"img", "L1"} = {})
        => /\ iret = IOk
           /\ image.name \in DOMAIN repo
           /\ \A q \in DOMAIN repo[image.name] : ~IsPrefix(<<Bin>>, q)

\* The child layer was applied onto a snapshot that held bin/sh.
C13_Witness ==
    /\ ImportDone /\ FirstImport /\ image = ScenarioB /\ StartRepo = EmptyRepo
    /\ iret = IOk
    /\ Exists(before, <<Bin, Sh>>) /\ Exists(repo["L1"], <<Bin, Sh>>)
    /\ DOMAIN repo["img"] = {Root}

(* C17: when the repositories file has no key equal to the image name,
   import fails with RepositoryFileIncomplete carrying that name and the
   keys that are present, each once, and the repository is as it was: no
   create and no snapshot call was made. *)
C17_MissingKey ==
    (ImportDone /\ image.readable /\ image.name \notin DOMAIN image.repositories)
        => /\ iret.st = "Err"
           /\ iret.err.name = "RepositoryFileIncomplete"
           /\ iret.err.args[1] = image.name
           /\ Len(iret.err.args[2]) = Cardinality(DOMAIN image.repositories)
           /\ {iret.err.args[2][k] : k \in 1..Len(iret.err.args[2])} = DOMAIN image.repositories
           /\ calls = <<>>
           /\ repo = StartRepo

\* Two other keys, and a repository that holds a subvolume.
C17_Witness ==
    /\ ImportDone
    /\ DOMAIN image.repositories = {"other", "more"}
    /\ iret = IErr(RepositoryFileIncomplete("img", <<"more", "other">>))
    /\ DOMAIN repo = {"L1"}

\* The call this step makes, when it makes one.
NewCall == calls' # calls /\ calls' # <<>>
SnapshotCall == NewCall /\ Last(calls').op = "snapshot"

(* C18 as stated: every layer after the base that import reaches and goes
   on from is applied onto a fresh snapshot of the result of the layer
   before it, in base-to-newest order, and the snapshot is named the image
   name when the layer is the last one and the layer's id otherwise. *)
C18_FreshSnapshotPerLayer ==
    [][(SnapshotCall /\ ipc' # "done")
        => /\ Last(calls').name = (IF Last(calls').last THEN image.name ELSE Last(calls').layer)
           /\ Last(calls').parent = Last(calls).name
           /\ image.layers[Last(calls').layer].parent = Last(calls).layer
           /\ Last(calls').name \notin DOMAIN repo
           /\ repo'[Last(calls').name] = repo[Last(calls).name]
           /\ ipc' = "applying"
           /\ snapshot' = repo[Last(calls).name]
           /\ layer' = image.layers[Last(calls').layer].tar]_vars

(* C18, amended: the layers after the base are taken in base-to-newest
   order, each under the image name when it is the last one and under its
   id otherwise, with the subvolume of the layer before it as parent.  When
   no subvolume of that name exists, a fresh snapshot of the parent is made
   and the layer is applied onto it; when one exists, no snapshot is made,
   the layer is not applied, and the existing subvolume stands for the
   layer's result. *)
C18_SnapshotPerLayerUnlessExists ==
    [][(SnapshotCall /\ ipc' # "done")
        => /\ Last(calls').name = (IF Last(calls').last THEN image.name ELSE Last(calls').layer)
           /\ Last(calls').parent = Last(calls).name
           /\ image.layers[Last(calls').layer].parent = Last(calls).layer
           /\ IF Last(calls').name \notin DOMAIN repo
              THEN /\ repo'[Last(calls').name] = repo[Last(calls).name]
                   /\ ipc' = "applying"
                   /\ snapshot' = repo[Last(calls).name]
                   /\ layer' = image.layers[Last(calls').layer].tar
              ELSE /\ repo' = repo
                   /\ ipc' = "loop"
                   /\ last_layer_processed' = Last(calls').name
                   /\ UNCHANGED lvars]_vars

\* The third layer of three is being applied onto a snapshot, named after
\* the image, of the subvolume L2 that the second layer left.
C18_Witness ==
    /\ ipc = "applying" /\ FirstImport
    /\ Len(calls) = 3
    /\ calls[2].name = "L2" /\ calls[2].result = NoErr
    /\ calls[3].name = "img" /\ calls[3].parent = "L2" /\ calls[3].layer = "L3"
    /\ snapshot = repo["L2"]

(* C19: an EEXIST of the subvolume create or of a snapshot is turned into
   success, and import goes on with the next layer; any other error of a
   step of import is what import returns, at once: no later layer is
   created or applied. *)
C19_OnlyEexistIsSwallowed ==
    [][/\ (NewCall /\ Collides(Last(calls')))
            => /\ ipc' = "loop" /\ iret' = IPending
               /\ last_layer_processed' = Last(calls').name
               /\ repo' = repo
       /\ (NewCall /\ ~Collides(Last(calls')) /\ Last(calls').result # NoErr)
            => ipc' = "done" /\ iret' = IErr(Last(calls').result)
       /\ (ipc = "applying" /\ lpc = "done" /\ lret # "Ok")
            => ipc' = "done" /\ iret'.st = "Err"
       /\ iret'.st = "Err" => ipc' = "done"
       /\ (ipc = "done" /\ ipc' = "done") => (calls' = calls /\ repo' = repo)]_vars

\* The base layer's subvolume was there, and import went on to the next
\* layer; in another run the repository refused the create.
C19_Witness ==
    /\ Len(calls) = 2 /\ Collides(calls[1]) /\ calls[2].result = NoErr
    /\ ipc = "applying"

(* C20: importing the same tarball again into the repository in which the
   import before succeeded returns success and changes nothing: the
   subvolumes and their contents stay as the first import left them. *)
C20_ImportIsIdempotent ==
    (Len(runs) = 2 /\ runs[2].ret = IOk)
        => /\ repo = runs[2].repo
           /\ ImportDone => iret = IOk

\* The second import of three layers: three calls, each met by EEXIST.
C20_Witness ==
    /\ Len(runs) = 2 /\ runs[2].ret = IOk /\ ImportDone /\ iret = IOk
    /\ Len(calls) = 3 /\ \A k \in 1..3 : Collides(calls[k])
    /\ \A k \in 1..3 : runs[2].calls[k].result = NoErr
    /\ repo = runs[2].repo

\* build_layer_stack stopped at a parent whose json the tarball does not hold.
MissingParentJson ==
    /\ ImportDone
    /\ Len(layer_stack) >= 2
    /\ ~has_json(Last(layer_stack))

(* C21: when the walk over the parents reaches a layer whose json names a
   parent of which the tarball holds no json, import fails with a
   structured error that carries the missing layer key and the layer keys
   that are present, and not with a bare I/O error. *)
C21_MissingParentIsStructured ==
    MissingParentJson
        => /\ iret.st = "Err"
           /\ iret.err.name # "Io"
           /\ Len(iret.err.args) = 2
           /\ iret.err.args[1] = Last(layer_stack)


\* The parent a json names, and the layers met from a layer by following
\* the parents for n steps.
json_parent(id) == IF has_json(id) THEN image.layers[id].parent ELSE "none"
RECURSIVE Ancestor(_, _)
Ancestor(id, n) == IF n = 0 THEN id ELSE Ancestor(json_parent(id), n - 1)
Acyclic ==
    \A id \in DOMAIN image.layers :
        \A n \in 1..Cardinality(DOMAIN image.layers) : Ancestor(id, n) # id
\* The chain of the parents of a layer, the layer first, in an acyclic image.
RECURSIVE JsonChain(_)
JsonChain(id) ==
    IF json_parent(id) = "none" THEN <<id>> ELSE <<id>> \o JsonChain(json_parent(id))
Latest == latest_content(image.repositories, image.name)
\* The chain of the latest layer has a json for every layer of it.
ChainComplete == Acyclic /\ \A i \in 1..Len(JsonChain(Latest)) : has_json(JsonChain(Latest)[i])
\* build_layer_stack has met the layer without a parent and returns.
StackBuilt == ipc = "build" /\ image.layers[layer_json].parent = "none"
Walking == ipc = "build" /\ image.layers[layer_json].parent # "none"

(* C24: the layer stack that import builds from the latest layer of
   `repositories` holds exactly the layers of the chain of json parents
   down to the base without a parent, each once, the latest first; the
   layers are then handed to the repository base first and newest last;
   and the walk ends whenever the chain of parents has no cycle: every
   turn adds a layer, the stack never holds more layers than the tarball
   has, and the loop is left. *)
C24_StackIsParentChain ==
    /\ [](StackBuilt => /\ ChainComplete
                        /\ layer_stack = JsonChain(Latest)
                        /\ \A i, j \in 1..Len(layer_stack) :
                              layer_stack[i] = layer_stack[j] => i = j)
    /\ [](\A k \in 1..Len(calls) :
            calls[k].layer = JsonChain(Latest)[Len(JsonChain(Latest)) + 1 - k])
    /\ []((iret = IOk /\ ChainComplete) => Len(calls) = Len(JsonChain(Latest)))
    /\ []((Walking /\ Acyclic) =>
            /\ Len(layer_stack) <= Cardinality(DOMAIN image.layers)
            /\ Len(layer_stack) < MaxWalk)
    /\ [][(Walking /\ ipc' = "build") => Len(layer_stack') = Len(layer_stack) + 1]_vars
    /\ (Walking /\ Acyclic) ~> ~Walking
C24_Witness ==
    /\ iret = IOk
    /\ Len(calls) = 3
    /\ calls[1].layer = "L1"
    /\ calls[3].layer = "L3"
    /\ FirstImport
\* A walk over a cycle goes on for as long as it is followed.
C24_CycleWitness == Walking /\ ~Acyclic /\ Len(layer_stack) = MaxWalk

\* An import of a tarball that has every layer.tar, into an empty
\* repository, failed after it had created a subvolume, and the import run
\* after it returned Ok.
InterruptedThenImported ==
    /\ Len(runs) = 2
    /\ \A id \in DOMAIN image.layers : image.layers[id].has_tar
    /\ runs[1].repo = EmptyRepo
    /\ runs[2].ret.st = "Err"
    /\ runs[2].repo # EmptyRepo
    /\ ImportDone
    /\ iret = IOk
\* The base layer of the image, the subvolume import makes of it, and what
\* create_image_from_path puts into that subvolume in an empty repository.
BaseLayer == Last(JsonChain(Latest))
BaseName == IF Len(JsonChain(Latest)) = 1 THEN image.name ELSE BaseLayer
CleanBase == archive_unpack(EmptyTree, image.layers[BaseLayer].tar)

(* C30: when an import fails after it has created a subvolume and before
   the content of the layer is in it, and the same import is then run
   again and succeeds, the repository holds what one import into an empty
   repository leaves: the subvolume of the base layer, which is the image
   itself when the image has one layer, holds the content of the
   layer.tar of the base layer. *)
C30_ReimportCompletes ==
    (InterruptedThenImported /\ CleanBase.err = NoErr)
        => /\ BaseName \in DOMAIN repo
           /\ repo[BaseName] = CleanBase.fs


(***************************************************************************)
(* Part IV: the lineage of an image and its export                         *)
(*                                                                         *)
(* export walks the parents of the image with get_btrfs_subvolume_stack,   *)
(* asks a send transcript of every subvolume of the stack, replays each    *)
(* into a directory of a temporary work bench and packs the work bench.    *)
(* The ioctls are taken by their contract: BTRFS_IOC_GET_SUBVOL_INFO fills *)
(* the info of a subvolume or fails with ENOENT on a directory that is not *)
(* one, and what get_btrfs_send returns for a subvolume (a decoded         *)
(* transcript or an error) is given with the repository.  Names are        *)
(* sequences of bytes, the work bench is a tree as in Part II whose first  *)
(* path component is the name of a layer directory.                        *)
(***************************************************************************)

MaxChain == 3       \* subvolumes in the chain of parents of the exported image

ZeroUuid == [i \in 1..BTRFS_UUID_SIZE |-> 0]
\* sixteen times the same ASCII letter
Uuid(k) == [i \in 1..BTRFS_UUID_SIZE |-> 64 + k]
\* a uuid with a byte above 127
Latin1Uuid(k) == [i \in 1..BTRFS_UUID_SIZE |-> IF i = 1 THEN 233 ELSE 64 + k]

\* `*u as char` collected into a String: every byte becomes the code point of
\* the same number, which a String holds in UTF-8.
char_bytes(u) == IF u < 128 THEN <<u>> ELSE <<192 + (u \div 64), 128 + (u % 64)>>
parent_name(parent_uuid) ==
    Concat([i \in 1..Len(parent_uuid) |-> char_bytes(parent_uuid[i])])

\* String::from_utf8: the bytes must be well-formed UTF-8.
utf8_width(b) ==
    IF b < 128 THEN 1
    ELSE IF b \in 194..223 THEN 2
    ELSE IF b \in 224..239 THEN 3
    ELSE IF b \in 240..244 THEN 4
    ELSE 0
utf8_second(b) ==
    IF b = 224 THEN 160..191
    ELSE IF b = 237 THEN 128..159
    ELSE IF b = 240 THEN 144..191
    ELSE IF b = 244 THEN 128..143
    ELSE 128..191
utf8_tail(bytes, i) == IF i = 2 THEN utf8_second(bytes[1]) ELSE 128..191
RECURSIVE is_utf8(_)
is_utf8(bytes) ==
    \/ bytes = <<>>
    \/ /\ utf8_width(bytes[1]) \in 1..Len(bytes)
       /\ \A i \in 2..utf8_width(bytes[1]) : bytes[i] \in utf8_tail(bytes, i)
       /\ is_utf8(SubSeq(bytes, utf8_width(bytes[1]) + 1, Len(bytes)))

\* A path with a NUL byte is refused before any system call.
has_nul(name) == \E i \in 1..Len(name) : name[i] = 0
InvalidPath == Err("InvalidPath", <<>>)

\* A directory of the repository: its BtrfsSubvolInfo when the ioctl knows it
\* as a subvolume, what get_btrfs_send returns for it, and the kinds of the
\* entries read_dir lists in it.
Subvolume(uuid, parent_uuid, known, send, entries) ==
    [uuid |-> uuid, parent_uuid |-> parent_uuid, known |-> known,
     send |-> send, entries |-> entries]
BtrfsSubvolInfo(name, sv) ==
    [name |-> name, uuid |-> sv.uuid, parent_uuid |-> sv.parent_uuid]

\* get_image_info: the directory is opened first, then the ioctl is asked;
\* only ENOENT of the ioctl is mapped to None.
Info(err, info) == [err |-> err, info |-> info]
get_image_info(st, name) ==
    IF has_nul(name) THEN Info(InvalidPath, None)
    ELSE IF name \notin DOMAIN st THEN Info(SysErr("ENOENT"), None)
    ELSE IF st[name].known THEN Info(NoErr, Some(BtrfsSubvolInfo(name, st[name])))
    ELSE Info(NoErr, None)

\* get_btrfs_send: the pipe, the ioctl, the reads and the decoding, by result.
Sent(ok, cmds) == [ok |-> ok, commands |-> cmds]
SendFailed == Sent(FALSE, <<>>)
BtrfsSendFailure == Err("BtrfsSend", <<>>)
get_btrfs_send(st, info) == st[info.name].send

\* The file system calls of the replay, on the tree of the work bench.
Outcome(err, fs) == [err |-> err, fs |-> fs]
Put(fs, path, node) ==
    [q \in DOMAIN fs \cup {path} |-> IF q = path THEN node ELSE fs[q]]
\* File::create
create_file(fs, path, data) ==
    IF ~is_dir(fs, Parent(path)) THEN Outcome(IoErr("ENOENT"), fs)
    ELSE IF is_dir(fs, path) THEN Outcome(IoErr("EISDIR"), fs)
    ELSE Outcome(NoErr, Put(fs, path, Node("file", data)))
\* mkdir
mkdir(fs, path) ==
    IF Exists(fs, path) THEN Outcome(SysErr("EEXIST"), fs)
    ELSE IF ~is_dir(fs, Parent(path)) THEN Outcome(SysErr("ENOENT"), fs)
    ELSE Outcome(NoErr, Put(fs, path, Node("dir", "")))
\* The content of a file is its bytes.  An entry of a subvolume holds
\* EntryBytes, VERSION holds "1.0", and layer.tar holds the archive of the
\* directory ".", which is not empty.
EntryBytes == <<101>>
VersionBytes == <<49, 46, 48>>
TarOfCurrentDirectory == <<46, 0>>
\* std::fs::copy(from, to): from must be a regular file, to is created or
\* truncated.
copy(fs, from_kind, to) ==
    IF from_kind # "file" THEN Outcome(IoErr("InvalidInput"), fs)
    ELSE create_file(fs, to, EntryBytes)

ReplayCommand(kind, path) == [kind |-> kind, path |-> path]
WriteCommand(path, offset, data) ==
    [kind |-> "WRITE", path |-> path, offset |-> offset, data |-> data]
process_mkfile(fs, local_path, wb) == create_file(fs, wb \o local_path, <<>>)
\* process_write: the file is opened with File::open, for reading only, and
\* write on it fails with EBADF; the offset of the command is not passed.
process_write(fs, local_path, wb, data) ==
    IF ~Exists(fs, wb \o local_path) THEN Outcome(IoErr("ENOENT"), fs)
    ELSE Outcome(IoErr("EBADF"), fs)
process_mkdir(fs, local_path, wb) == mkdir(fs, wb \o local_path)

\* process_base_subvolume: every entry of the directory repo/name is copied
\* onto the path snapshot_work_bench itself.
RECURSIVE copy_entries(_, _, _)
copy_entries(fs, entries, to) ==
    IF entries = <<>> THEN Outcome(NoErr, fs)
    ELSE IF copy(fs, Head(entries), to).err # NoErr THEN copy(fs, Head(entries), to)
    ELSE copy_entries(copy(fs, Head(entries), to).fs, Tail(entries), to)
process_base_subvolume(fs, snapshot_work_bench, name, st) ==
    IF has_nul(name) THEN Outcome(IoErr("InvalidInput"), fs)
    ELSE IF name \notin DOMAIN st THEN Outcome(IoErr("ENOENT"), fs)
    ELSE copy_entries(fs, st[name].entries, snapshot_work_bench)

\* process_command, for the commands of the transcripts considered here.
process_command(fs, c, wb, name, st) ==
    CASE c.kind = "SNAPSHOT" -> process_base_subvolume(fs, wb, name, st)
      [] c.kind = "MKFILE" -> process_mkfile(fs, c.path, wb)
      [] c.kind = "MKDIR" -> process_mkdir(fs, c.path, wb)
      [] c.kind = "WRITE" -> process_write(fs, c.path, wb, c.data)
      [] c.kind \in {"CLONE", "UPDATE_EXTENT", "SUBVOL", "END"} -> Outcome(NoErr, fs)
\* A variant of the loop of process_snapshot that goes on after a command
\* that failed and returns the last result.
RECURSIVE process_commands_past_failure(_, _, _, _, _)
process_commands_past_failure(fs, cs, wb, name, st) ==
    IF cs = <<>> THEN Outcome(NoErr, fs)
    ELSE IF Len(cs) = 1 THEN process_command(fs, Head(cs), wb, name, st)
    ELSE process_commands_past_failure(process_command(fs, Head(cs), wb, name, st).fs,
                                       Tail(cs), wb, name, st)
RECURSIVE process_commands(_, _, _, _, _)
process_commands(fs, cs, wb, name, st) ==
    IF cs = <<>> THEN Outcome(NoErr, fs)
    ELSE IF process_command(fs, Head(cs), wb, name, st).err # NoErr
         THEN process_command(fs, Head(cs), wb, name, st)
    ELSE process_commands(process_command(fs, Head(cs), wb, name, st).fs,
                          Tail(cs), wb, name, st)

VersionFile == <<"VERSION">>
LayerTarFile == <<"layer.tar">>
JsonFile == <<"json">>
RepositoriesFile == <<"repositories">>

\* process_snapshot reads layer.tar into an empty Vec, which reads nothing, so
\* that the digest is the SHA-256 of no bytes; read_to_string then takes the
\* 32 bytes of the digest as UTF-8.
Sha256OfNoBytes ==
    <<227, 176, 196, 66, 152, 252, 28, 20, 154, 251, 244, 200, 153, 111, 185, 36,
      39, 174, 65, 228, 100, 155, 147, 76, 164, 149, 153, 27, 120, 82, 184, 85>>
write_json(fs, wb) ==
    IF ~is_utf8(Sha256OfNoBytes) THEN Outcome(IoErr("InvalidData"), fs)
    ELSE create_file(fs, Append(wb, JsonFile), Sha256OfNoBytes)
write_layer_tar(fs, wb) ==
    IF create_file(fs, Append(wb, LayerTarFile), TarOfCurrentDirectory).err # NoErr
    THEN create_file(fs, Append(wb, LayerTarFile), TarOfCurrentDirectory)
    ELSE write_json(create_file(fs, Append(wb, LayerTarFile), TarOfCurrentDirectory).fs, wb)
write_version(fs, wb) ==
    IF create_file(fs, Append(wb, VersionFile), VersionBytes).err # NoErr
    THEN create_file(fs, Append(wb, VersionFile), VersionBytes)
    ELSE write_layer_tar(create_file(fs, Append(wb, VersionFile), VersionBytes).fs, wb)
process_snapshot(fs, snapshot_work_bench, cs, name, st) ==
    IF process_commands(fs, cs, snapshot_work_bench, name, st).err # NoErr
    THEN process_commands(fs, cs, snapshot_work_bench, name, st)
    ELSE write_version(process_commands(fs, cs, snapshot_work_bench, name, st).fs,
                       snapshot_work_bench)

is_subvolume(cmd) == cmd.kind = "SUBVOL"
process_subvolume(fs, volume, name, st) ==
    IF \E i \in 1..Len(volume) : is_subvolume(volume[i])
    THEN process_base_subvolume(fs, <<name>>, name, st)
    ELSE process_snapshot(fs, <<name>>, volume, name, st)

(* The repositories exported: a chain of n subvolumes, the image last.     *)
(* The subvolumes are named either by words ("img" and "L1", "L2", ...) or *)
(* by the characters of their uuid; the base has the uuid of no parent, or *)
(* the uuid of a subvolume that is gone, or one under whose name a plain   *)
(* directory lies.                                                         *)
ImgName == <<105, 109, 103>>
GoneUuid == Uuid(9)
Namings == {"word", "uuid"}
BaseParents == {"none", "gone", "plain"}
UuidKinds == {"ascii", "latin1"}
UuidOf(uu, k) == IF uu = "latin1" /\ k = 1 THEN Latin1Uuid(k) ELSE Uuid(k)
SubvolName(naming, uu, k, n) ==
    IF naming = "uuid" THEN parent_name(UuidOf(uu, k))
    ELSE IF k = n THEN ImgName
    ELSE <<76, 48 + k>>
BaseParent(base) == IF base = "none" THEN ZeroUuid ELSE GoneUuid
SendPool ==
    { Sent(TRUE, <<ReplayCommand("SUBVOL", <<>>), ReplayCommand("MKFILE", <<F>>), ReplayCommand("END", <<>>)>>),
      Sent(TRUE, <<ReplayCommand("SNAPSHOT", <<>>), ReplayCommand("MKFILE", <<F>>), ReplayCommand("END", <<>>)>>),
      Sent(TRUE, <<ReplayCommand("MKDIR", <<>>), ReplayCommand("MKFILE", <<F>>), ReplayCommand("END", <<>>)>>),
      Sent(TRUE, <<ReplayCommand("MKDIR", <<>>), ReplayCommand("MKFILE", <<F>>),
                   WriteCommand(<<F>>, 1, <<7, 8>>), ReplayCommand("MKFILE", <<G>>),
                   ReplayCommand("END", <<>>)>>),
      SendFailed }
EntriesPool == {<<>>, <<"file">>, <<"file", "dir">>}
ChainSubvolume(uu, base, k, send, entries) ==
    Subvolume(UuidOf(uu, k), IF k = 1 THEN BaseParent(base) ELSE UuidOf(uu, k - 1),
              TRUE, send, entries)
PlainDirectory == Subvolume(ZeroUuid, ZeroUuid, FALSE, SendFailed, <<>>)
ChainNames(naming, uu, base, n) ==
    {SubvolName(naming, uu, k, n) : k \in 1..n}
    \cup (IF base = "plain" THEN {parent_name(GoneUuid)} ELSE {})
IndexOf(naming, uu, n, name) == CHOOSE k \in 1..n : SubvolName(naming, uu, k, n) = name
Chain(naming, uu, base, n, send, entries) ==
    [name \in ChainNames(naming, uu, base, n) |->
        IF name = parent_name(GoneUuid) THEN PlainDirectory
        ELSE ChainSubvolume(uu, base, IndexOf(naming, uu, n, name),
                            send[IndexOf(naming, uu, n, name)], entries)]
ExportArgs(name, tarball) == [name |-> name, tarball |-> tarball]
\* The transcripts of a chain: one subvolume has a transcript of its own,
\* the others have the same one.
Transcripts(n) ==
    {[k \in 1..n |-> IF k = j THEN one ELSE rest] :
        j \in 1..n, one \in SendPool, rest \in SendPool}
Chains(n) ==
    {Chain(naming, uu, base, n, send, entries) :
        naming \in Namings, uu \in UuidKinds, base \in BaseParents,
        send \in Transcripts(n), entries \in EntriesPool}
Stores(longest) == UNION {Chains(n) : n \in 1..longest}
\* the image is the subvolume no other has as parent
ImageNames(st) ==
    {name \in DOMAIN st : st[name].known
        /\ \A other \in DOMAIN st : st[other].parent_uuid # st[name].uuid}

ExportInit ==
    /\ store \in Stores(MaxChain)
    /\ \E name \in ImageNames(store), tarball \in BOOLEAN :
          /\ export_args = ExportArgs(name, tarball)
          /\ current_name = name
    /\ stack = <<>>
    /\ lineage = IPending
    /\ sends = <<>>
    /\ parent_id = None
    /\ work_bench = <<>>
    /\ epc = "lineage"
    /\ eret = IPending
    /\ materialized = <<>>
    /\ DecoderIdle
    /\ LayerIdle
    /\ ImportIdle
    /\ ExtraIdle

ExportFails(e) ==
    /\ eret' = IErr(e)
    /\ epc' = "done"

\* One turn of the loop of get_btrfs_subvolume_stack.
WalkFails(e) ==
    /\ lineage' = IErr(e)
    /\ ExportFails(e)
    /\ UNCHANGED <<stack, current_name>>
WalkPushes(i) ==
    /\ stack' = Append(stack, i)
    /\ current_name' = parent_name(i.parent_uuid)
    /\ UNCHANGED <<lineage, eret, epc>>
WalkEnds ==
    /\ lineage' = IOk
    /\ epc' = "send"
    /\ UNCHANGED <<stack, current_name, eret>>
GetImageInfo ==
    /\ epc = "lineage"
    /\ IF get_image_info(store, current_name).err # NoErr
       THEN WalkFails(get_image_info(store, current_name).err)
       ELSE IF get_image_info(store, current_name).info.some
       THEN WalkPushes(get_image_info(store, current_name).info.val)
       ELSE WalkEnds
    /\ UNCHANGED <<store, export_args, sends, parent_id, work_bench, materialized>>
    /\ UNCHANGED <<dvars, lvars, ivars>>
    /\ UNCHANGED xvars

\* export, the transcripts of the stack in the order of the stack, and the
\* work bench.
Sends(st, infos) ==
    [i \in 1..Len(infos) |->
        [uuid |-> infos[i].uuid, volume |-> get_btrfs_send(st, infos[i]).commands]]
GetBtrfsSends ==
    /\ epc = "send"
    /\ IF \E i \in 1..Len(stack) : ~get_btrfs_send(store, stack[i]).ok
       THEN /\ ExportFails(BtrfsSendFailure)
            /\ UNCHANGED <<sends, work_bench>>
       ELSE /\ sends' = Sends(store, stack)
            /\ work_bench' = EmptyTree
            /\ epc' = IF stack = <<>> THEN "package" ELSE "loop"
            /\ UNCHANGED eret
    /\ UNCHANGED <<store, export_args, current_name, stack, lineage, parent_id, materialized>>
    /\ UNCHANGED <<dvars, lvars, ivars>>
    /\ UNCHANGED xvars

\* export, one turn of the loop over the stack.
Materialized(uuid, p, result) == [uuid |-> uuid, parent |-> p, result |-> result]
SubvolumeProcessed(uuid, r) ==
    /\ materialized' = Append(materialized, Materialized(uuid, parent_id, r.err))
    /\ work_bench' = r.fs
    /\ IF r.err # NoErr
       THEN /\ ExportFails(r.err)
            /\ UNCHANGED <<sends, parent_id>>
       ELSE /\ parent_id' = Some(uuid)
            /\ sends' = Tail(sends)
            /\ epc' = IF Tail(sends) = <<>> THEN "package" ELSE "loop"
            /\ UNCHANGED eret
ProcessSubvolume ==
    /\ epc = "loop"
    /\ IF ~is_utf8(Head(sends).uuid)
       THEN /\ ExportFails(Err("FromUtf8Error", <<>>))
            /\ UNCHANGED <<sends, parent_id, work_bench, materialized>>
       ELSE SubvolumeProcessed(Head(sends).uuid,
                process_subvolume(work_bench, Head(sends).volume, Head(sends).uuid, store))
    /\ UNCHANGED <<store, export_args, current_name, stack, lineage>>
    /\ UNCHANGED <<dvars, lvars, ivars>>
    /\ UNCHANGED xvars

\* export, the end: the tarball is opened for reading and the work bench is
\* appended to it.
Package ==
    /\ epc = "package"
    /\ ExportFails(IF export_args.tarball THEN IoErr("EBADF") ELSE IoErr("ENOENT"))
    /\ UNCHANGED <<store, export_args, current_name, stack, lineage, sends, parent_id,
                   work_bench, materialized>>
    /\ UNCHANGED <<dvars, lvars, ivars>>
    /\ UNCHANGED xvars

ExportNext ==
    \/ GetImageInfo
    \/ GetBtrfsSends
    \/ ProcessSubvolume
    \/ Package

ExportSpec == ExportInit /\ [][ExportNext]_vars

(***************************************************************************)
(* Properties of Part IV                                                   *)
(***************************************************************************)

\* The chain of parents of a subvolume as the uuids link it, the subvolume
\* itself first and its base last.
ParentOf(st, name) ==
    {n \in DOMAIN st : st[n].known /\ st[n].uuid = st[name].parent_uuid}
RECURSIVE Ancestry(_, _)
Ancestry(st, name) ==
    IF ParentOf(st, name) = {} THEN <<name>>
    ELSE <<name>> \o Ancestry(st, CHOOSE n \in ParentOf(st, name) : TRUE)
HasParentlessBase(st, name) == st[Last(Ancestry(st, name))].parent_uuid = ZeroUuid
WalkReturned == lineage # IPending

(* C14: the walk over the parents of an image whose chain ends in a
   subvolume with no parent returns without an error a stack with one
   element for every subvolume of the chain, the image and then each
   parent in turn, so that the reversed stack lists the base first: one
   element for a base image, three for a chain of three. *)
C14_LineageOfChain ==
    (WalkReturned /\ HasParentlessBase(store, export_args.name)) =>
        /\ lineage = IOk
        /\ Len(stack) = Len(Ancestry(store, export_args.name))
        /\ \A i \in 1..Len(stack) : stack[i].name = Ancestry(store, export_args.name)[i]

\* The info of the stack with this uuid has that parent_uuid.
IsChildOf(uuid, parent_uuid) ==
    \E i \in 1..Len(stack) : stack[i].uuid = uuid /\ stack[i].parent_uuid = parent_uuid

(* C15: export hands the subvolumes of the lineage to process_subvolume
   base first: the first one is the base, the last info of the walk, and
   it is given no parent; every later one is the child of the one handed
   just before it and is given that one's id as parent. *)
C15_BaseFirstOlderParent ==
    \A k \in 1..Len(materialized) :
        /\ k = 1 => /\ materialized[k].uuid = Last(stack).uuid
                    /\ ~materialized[k].parent.some
        /\ k > 1 => /\ materialized[k].parent = Some(materialized[k - 1].uuid)
                    /\ IsChildOf(materialized[k].uuid, materialized[k - 1].uuid)

LayerDirectories(fs) == {q \in DOMAIN fs : Len(q) = 1 /\ is_dir(fs, q)}
HasLayerFiles(fs, dir) ==
    /\ is_dir(fs, dir)
    /\ Exists(fs, Append(dir, JsonFile))
    /\ Exists(fs, Append(dir, LayerTarFile))
    /\ Exists(fs, Append(dir, VersionFile))
Packaging == epc = "package" \/ eret = IOk

(* C16: once export has processed every layer of the lineage and packs the
   work bench, the work bench holds a `repositories` entry and exactly one
   directory for every layer of the lineage, the base included, each with
   json, layer.tar and VERSION. *)
C16_ExportedTree ==
    Packaging =>
        /\ Exists(work_bench, <<RepositoriesFile>>)
        /\ Cardinality(LayerDirectories(work_bench)) = Len(stack)
        /\ \A i \in 1..Len(stack) : HasLayerFiles(work_bench, <<stack[i].uuid>>)

\* The layers of which process_snapshot has written layer.tar.
LayersWithTar(fs) ==
    {dir \in LayerDirectories(fs) : Exists(fs, Append(dir, LayerTarFile))}
LayerTar(fs, dir) == fs[Append(dir, LayerTarFile)].data
\* Read::read fills at most the buffer it is given.
file_read(bytes, buffer_len) ==
    SubSeq(bytes, 1, IF buffer_len < Len(bytes) THEN buffer_len ELSE Len(bytes))
\* layer_file.read(&mut content) with content = Vec::new(): what is digested.
digested_content(fs, dir) == file_read(LayerTar(fs, dir), Len(<<>>))

(* C23: the id of an exported layer is the hash of the whole layer.tar of
   the layer: what process_snapshot digests for a layer is every byte of
   the layer.tar it has just written, and the json of the layer is
   written with the id. *)
C23_LayerIdIsContentHash ==
    \A dir \in LayersWithTar(work_bench) :
        /\ digested_content(work_bench, dir) = LayerTar(work_bench, dir)
        /\ Exists(work_bench, Append(dir, JsonFile))

\* The transcript export is about to replay, its staging directory, and the
\* work bench as the commands before the j-th leave it.
Replaying == epc = "loop" /\ sends # <<>> /\ is_utf8(Head(sends).uuid)
Transcript == Head(sends).volume
Staging == <<Head(sends).uuid>>
IsReplayed == \A i \in 1..Len(Transcript) : ~is_subvolume(Transcript[i])
ReplayedBefore(j) ==
    process_commands(work_bench, SubSeq(Transcript, 1, j - 1), Staging,
                     Head(sends).uuid, store)
IsRegularFile(fs, path) == Exists(fs, path) /\ fs[path].kind = "file"
\* pwrite: the bytes of a file after data is written at an offset, a hole
\* before the offset reading as zeros.
WrittenAt(bytes, offset, data) ==
    [i \in 1..(IF Len(bytes) > offset + Len(data) THEN Len(bytes) ELSE offset + Len(data)) |->
        IF i \in (offset + 1)..(offset + Len(data)) THEN data[i - offset]
        ELSE IF i <= Len(bytes) THEN bytes[i]
        ELSE 0]
WritesExistingFile(j) ==
    /\ Transcript[j].kind = "WRITE"
    /\ ReplayedBefore(j).err = NoErr
    /\ IsRegularFile(ReplayedBefore(j).fs, Staging \o Transcript[j].path)

(* C25: the replay of a Write(path, offset, data) on a regular file that
   exists leaves the file with data in its bytes offset .. offset + len
   and its other bytes as they were, and leaves every other file as it
   was. *)
C25_WriteAtOffset ==
    [][Replaying => \A j \in 1..Len(Transcript) :
         (IsReplayed /\ WritesExistingFile(j)) =>
            /\ IsRegularFile(work_bench', Staging \o Transcript[j].path)
            /\ work_bench'[Staging \o Transcript[j].path].data
                 = WrittenAt(ReplayedBefore(j).fs[Staging \o Transcript[j].path].data,
                             Transcript[j].offset, Transcript[j].data)
            /\ \A q \in DOMAIN ReplayedBefore(j).fs \ {Staging \o Transcript[j].path} :
                 Exists(work_bench', q) /\ work_bench'[q] = ReplayedBefore(j).fs[q]]_vars

\* The subvolume of the repository whose transcript is replayed, its parent,
\* and the names read_dir gives the entries of a subvolume.
ReplayedName == CHOOSE n \in DOMAIN store : store[n].uuid = Head(sends).uuid
EntryName(i) == <<<<"e1">>, <<"e2">>>>[i]
HoldsCopyOf(fs, dir, entries) ==
    /\ is_dir(fs, dir)
    /\ \A i \in 1..Len(entries) :
         /\ Exists(fs, Append(dir, EntryName(i)))
         /\ fs[Append(dir, EntryName(i))].kind = entries[i]
Creates(c) == c.kind \in {"MKFILE", "MKDIR"}
HoldsCreated(fs, dir, cs) ==
    /\ is_dir(fs, dir)
    /\ \A i \in 1..Len(cs) : Creates(cs[i]) => Exists(fs, dir \o cs[i].path)
SnapshotLed == Head(Transcript).kind = "SNAPSHOT"
SubvolLed == Head(Transcript).kind = "SUBVOL"

(* C26: the replay of a transcript led by SNAPSHOT works on a staging
   directory that holds a copy of every entry of the parent subvolume; the
   replay of a transcript led by SUBVOL, a base layer, works on a staging
   directory that was empty and holds what the creation commands of the
   transcript make, and no copy of an entry of a subvolume. *)
C26_ReplayBaseline ==
    [][Replaying =>
         /\ (SnapshotLed /\ ParentOf(store, ReplayedName) # {}) =>
               \A p \in ParentOf(store, ReplayedName) :
                  HoldsCopyOf(work_bench', Staging, store[p].entries)
         /\ SubvolLed =>
               /\ HoldsCreated(work_bench', Staging, Transcript)
               /\ \A q \in DOMAIN work_bench' :
                     (Len(q) >= 1 /\ q[1] = Head(sends).uuid /\ work_bench'[q].kind = "file")
                        => work_bench'[q].data # EntryBytes]_vars

\* The work bench after the first j commands of the transcript, one after
\* the other (a command that fails leaves what it did before it failed),
\* and the first of them that fails.
RECURSIVE AppliedInOrder(_)
AppliedInOrder(j) ==
    IF j = 0 THEN work_bench
    ELSE process_command(AppliedInOrder(j - 1), Transcript[j], Staging,
                         Head(sends).uuid, store).fs
FailsAt(j) ==
    process_command(AppliedInOrder(j - 1), Transcript[j], Staging,
                    Head(sends).uuid, store).err # NoErr
FirstFailure(j) == FailsAt(j) /\ \A i \in 1..(j - 1) : ~FailsAt(i)
ErrorAt(j) ==
    process_command(AppliedInOrder(j - 1), Transcript[j], Staging,
                    Head(sends).uuid, store).err
Extends(fs, old) == \A q \in DOMAIN old : Exists(fs, q) /\ fs[q] = old[q]
ExportFailed == eret.st = "Err"

(* C27: export applies the commands of a transcript to the staging
   directory one after the other in the order of the transcript; at the
   first command that fails the work bench is left as the commands up to
   it made it, export returns the error of that command, and nothing
   happens after an error of a command or of get_btrfs_send: no layer is
   processed and the tarball is not packed. *)
C27_InOrderUntilFirstFailure ==
    /\ [][(Replaying /\ IsReplayed) =>
            /\ \A j \in 1..Len(Transcript) :
                  FirstFailure(j) => /\ work_bench' = AppliedInOrder(j)
                                     /\ eret' = IErr(ErrorAt(j))
            /\ (\A j \in 1..Len(Transcript) : ~FailsAt(j))
                  => Extends(work_bench', AppliedInOrder(Len(Transcript)))]_vars
    /\ [][ExportFailed' => /\ epc' = "done"
                           /\ sends' = sends
                           /\ Len(materialized') <= Len(materialized) + 1]_vars
    /\ [][ExportFailed => UNCHANGED <<work_bench, materialized, sends, eret, epc>>]_vars
    /\ [](eret = IErr(BtrfsSendFailure) => work_bench = <<>> /\ materialized = <<>>)
C27_Witness ==
    /\ eret = IErr(IoErr("EBADF"))
    /\ Len(sends) >= 2
    /\ Exists(work_bench, <<Head(sends).uuid, F>>)
    /\ ~Exists(work_bench, <<Head(sends).uuid, G>>)

(***************************************************************************)
(* Part V: get_image_location_for_process                                  *)
(*                                                                         *)
(* A process is started in a directory given as `image`: a path to a       *)
(* directory, or the name of an image of the repository, of which a        *)
(* snapshot named after the process is made.  The repository is the one    *)
(* of Part III; an entry of it that is a regular file is a tree whose      *)
(* root is a file.                                                         *)
(***************************************************************************)

MaxLocations == 2     \* calls of get_image_location_for_process in a row

\* std::fs::metadata
Metadata(ok, dir) == [ok |-> ok, is_dir |-> dir]
metadata(cw, path) ==
    IF path \in DOMAIN cw THEN Metadata(TRUE, cw[path] = "dir") ELSE Metadata(FALSE, FALSE)
\* std::fs::metadata of repository/<name>
location_metadata(r, name) ==
    IF name \in DOMAIN r THEN Metadata(TRUE, r[name][Root].kind = "dir")
    ELSE Metadata(FALSE, FALSE)

ImageIsntDirectory(path) == Err("ImageIsntDirectory", <<path>>)
ImageDoesntExist(path) == Err("ImageDoesntExist", <<path>>)

\* What get_image_location_for_process returns, and the repository it leaves:
\* the path is `path` itself or repository/<path>.
Located(err, in_repo, path, r) ==
    [err |-> err, in_repo |-> in_repo, path |-> path, repo |-> r]
snapshot_location(c, name) ==
    IF c.err # NoErr THEN Located(c.err, FALSE, "", c.repo)
    ELSE Located(NoErr, TRUE, name, c.repo)
\* A variant that looks the image up in the repository first.
get_image_location_repository_first(cw, r, flt, img, name) ==
    IF location_metadata(r, img).ok /\ location_metadata(r, img).is_dir
    THEN snapshot_location(create_image_snapshot(r, flt, img, name), name)
    ELSE IF metadata(cw, img).ok /\ metadata(cw, img).is_dir
    THEN Located(NoErr, FALSE, img, r)
    ELSE Located(ImageDoesntExist(img), FALSE, "", r)
get_image_location_for_process(cw, r, flt, img, name) ==
    IF metadata(cw, img).ok
    THEN IF metadata(cw, img).is_dir THEN Located(NoErr, FALSE, img, r)
         ELSE Located(ImageIsntDirectory(img), FALSE, "", r)
    ELSE IF ~location_metadata(r, img).ok THEN Located(IoErr("ENOENT"), FALSE, "", r)
    ELSE IF location_metadata(r, img).is_dir
    THEN snapshot_location(create_image_snapshot(r, flt, img, name), name)
    ELSE Located(ImageDoesntExist(img), FALSE, "", r)

\* The paths, the repositories and the arguments tried.
PathNames == {"img", "web"}
ImageArgs == {"img", "web", "nope"}
ProcessNames == {"p1", "p2"}
WorkingDirectories == UNION {[names -> {"dir", "file"}] : names \in SUBSET PathNames}
FileEntry == [q \in {Root} |-> Node("file", "")]
ImageTree == Tree({<<<<Bin>>, "dir">>, <<<<Bin, Sh>>, "file">>})
LocationRepos ==
    { EmptyRepo,
      WithSubvolume(EmptyRepo, "img", ImageTree),
      WithSubvolume(WithSubvolume(EmptyRepo, "img", ImageTree), "p1", OldTree),
      WithSubvolume(WithSubvolume(EmptyRepo, "img", ImageTree), "web", EmptyTree),
      WithSubvolume(EmptyRepo, "img", FileEntry) }

LocationInit ==
    /\ cwd \in WorkingDirectories
    /\ repo \in LocationRepos
    /\ fault \in {"none", "EROFS"}
    /\ located = <<>>
    /\ image = <<>>
    /\ layer_stack = <<>>
    /\ layer_json = ""
    /\ last_layer_processed = ""
    /\ new_layer_name = ""
    /\ ipc = "idle"
    /\ iret = IPending
    /\ calls = <<>>
    /\ runs = <<>>
    /\ DecoderIdle
    /\ LayerIdle
    /\ ExportIdle
    /\ PipeIdle

LocationCall(img, name, before_repo, l) ==
    [image |-> img, name |-> name, before |-> before_repo,
     err |-> l.err, in_repo |-> l.in_repo, path |-> l.path]
Locate(img, name, l) ==
    /\ located' = Append(located, LocationCall(img, name, repo, l))
    /\ repo' = l.repo
GetImageLocationForProcess ==
    /\ Len(located) < MaxLocations
    /\ \E img \in ImageArgs, name \in ProcessNames :
          Locate(img, name, get_image_location_for_process(cwd, repo, fault, img, name))
    /\ UNCHANGED <<cwd, fault, image, layer_stack, layer_json, last_layer_processed,
                   new_layer_name, ipc, iret, calls, runs>>
    /\ UNCHANGED <<dvars, lvars, evars>>
    /\ UNCHANGED pvars

LocationNext == GetImageLocationForProcess

LocationSpec == LocationInit /\ [][LocationNext]_vars

(***************************************************************************)
(* Properties of Part V                                                    *)
(***************************************************************************)

IsDirectoryPath(c) == c.image \in DOMAIN cwd /\ cwd[c.image] = "dir"
IsRepositoryImage(c) ==
    c.image \in DOMAIN c.before /\ c.before[c.image][Root].kind = "dir"
ReturnedPath(c, r) ==
    /\ c.err = NoErr /\ ~c.in_repo /\ c.path = c.image
    /\ r = c.before
Snapshotted(c, r) ==
    /\ c.err = NoErr /\ c.in_repo /\ c.path = c.name
    /\ c.name \notin DOMAIN c.before
    /\ r = WithSubvolume(c.before, c.name, c.before[c.image])
Refused(c, r) == c.err # NoErr /\ r = c.before

(* C22 as stated: when `image` is the path of an existing directory the
   call returns that path and makes no snapshot; when it is an image of
   the repository the call makes exactly one snapshot of it, named after
   the process, and returns repository/<process name>; in every other case
   it returns an error and the repository is as it was. *)
C22_ReadyLocation ==
    located # <<>> =>
        /\ IsDirectoryPath(Last(located)) => ReturnedPath(Last(located), repo)
        /\ IsRepositoryImage(Last(located)) => Snapshotted(Last(located), repo)
        /\ (~IsDirectoryPath(Last(located)) /\ ~IsRepositoryImage(Last(located)))
              => Refused(Last(located), repo)

CanSnapshot(c) ==
    IsRepositoryImage(c) /\ c.name \notin DOMAIN c.before /\ fault = "none"

(* C22, amended: a path that exists outside the repository is looked at
   first: a directory is returned as it is and a path that is not a
   directory is an error, and no snapshot is made in either case.  Only
   when no such path exists is the image looked up in the repository: if
   it is there, the repository holds nothing named after the process and
   accepts the snapshot, then exactly one snapshot of the image with that
   name is made and repository/<process name> is returned.  In every other
   case the call returns an error and the repository is as it was. *)
C22_PathThenRepository ==
    located # <<>> =>
        IF Last(located).image \in DOMAIN cwd
        THEN IF IsDirectoryPath(Last(located)) THEN ReturnedPath(Last(located), repo)
             ELSE Refused(Last(located), repo)
        ELSE IF CanSnapshot(Last(located)) THEN Snapshotted(Last(located), repo)
        ELSE Refused(Last(located), repo)

\* A second process is started in the same image: two snapshots of it.
C22_Witness ==
    /\ Len(located) = 2
    /\ located[1].image = "img" /\ located[2].image = "img"
    /\ Snapshotted(located[1], located[2].before)
    /\ Snapshotted(located[2], repo)
    /\ DOMAIN repo = {"img", "p1", "p2"}

(***************************************************************************)
(* Part VI: get_btrfs_send, the reads of the send pipe                     *)
(*                                                                         *)
(* get_btrfs_send makes a pipe, has the kernel write the send stream of    *)
(* the subvolume to it with BTRFS_IOC_SEND, and then reads the pipe into   *)
(* a Vec through a buffer of 1024 bytes until a read returns 0.  The       *)
(* ioctl has returned before the first read, so every read finds what is   *)
(* left of the stream in the pipe; the streams here fit in the pipe.       *)
(***************************************************************************)

READ_CACHE_SIZE == 1024
Zeros(n) == [i \in 1..n |-> 0]
\* read(fd, buf): the bytes available, at most as many as the buffer is
\* long, are put at the start of the buffer and counted.
read_count(available, buf) ==
    IF Len(available) < Len(buf) THEN Len(available) ELSE Len(buf)
read_into(available, buf) ==
    [i \in 1..Len(buf) |-> IF i <= read_count(available, buf) THEN available[i] ELSE buf[i]]

\* The streams sent: the streams of Part I that decode, and two longer
\* runs of bytes, one of them as long as the buffer.
Filler(n) == [i \in 1..n |-> 1 + (i % 200)]
SendStreams ==
    {StreamBytes(t) : t \in RoundTripCases}
    \cup {Filler(READ_CACHE_SIZE), Filler(READ_CACHE_SIZE + 6)}

SendInit ==
    /\ send_stream \in SendStreams
    /\ pipe = <<>>
    /\ read_cache = <<>>
    /\ content = <<>>
    /\ returned = <<>>
    /\ spc = "send"
    /\ DecoderIdle
    /\ LayerIdle
    /\ ImportIdle
    /\ ExportIdle
    /\ LocationIdle

\* btrfs_ioc_send, and the two `let mut` after it.
BtrfsIocSend ==
    /\ spc = "send"
    /\ pipe' = send_stream
    /\ content' = <<>>
    /\ read_cache' = Zeros(READ_CACHE_SIZE)
    /\ spc' = "read"
    /\ UNCHANGED <<send_stream, returned>>
    /\ UNCHANGED <<cwd, located>>
    /\ UNCHANGED <<dvars, lvars, ivars, evars>>

\* One turn of the while loop: a read that returns more than 0 bytes.  On
\* an empty pipe the read waits, since the write end is still open.
ReadPipe ==
    /\ spc = "read"
    /\ read_count(pipe, read_cache) # 0
    /\ returned' = returned \o SubSeq(pipe, 1, read_count(pipe, read_cache))
    /\ content' = content \o read_into(pipe, read_cache)
    /\ read_cache' = Zeros(READ_CACHE_SIZE)
    /\ pipe' = SubSeq(pipe, read_count(pipe, read_cache) + 1, Len(pipe))
    /\ UNCHANGED <<send_stream, spc>>
    /\ UNCHANGED <<cwd, located>>
    /\ UNCHANGED <<dvars, lvars, ivars, evars>>

SendNext ==
    \/ BtrfsIocSend
    \/ ReadPipe

SendSpec == SendInit /\ [][SendNext]_vars

(* C29: the bytes get_btrfs_send gathers for the decoder are the bytes the
   reads of the pipe have returned, one read after the other, and nothing
   else: a read that returns fewer bytes than the buffer is long adds no
   padding, and once the pipe is read out the bytes gathered are the
   stream. *)
C29_ContentIsWhatWasRead ==
    /\ content = returned
    /\ (spc = "read" /\ pipe = <<>>) => content = send_stream

====
